---------------------------- MODULE Spec2Model ----------------------------
(***************************************************************************)
(* A model of buru: the content-addressed media store (storage.rs), the    *)
(* catalog (database.rs) and the orchestrator workflows (app.rs).          *)
(*                                                                         *)
(* Every storage call and every catalog statement is one step of the       *)
(* client that runs it, so that the calls of several clients interleave    *)
(* exactly where the code can be pre-empted or awaits.                     *)
(***************************************************************************)
EXTENDS Integers, Sequences, FiniteSets, TLC

VARIABLES
    files,       \* absolute paths of the regular files under the store root
    images,      \* keys of the rows of table images
    source,      \* images.source of each row (NoValue: NULL or no row)
    metadatas,   \* row of image_metadatas of each image (NoValue: no row)
    tags,        \* names in table tags
    image_tags,  \* rows <<hash, tag_name>> of table image_tags
    tag_counts,  \* rows <<tag_name, count>> of table tag_counts
    pc,          \* per client: the call it is about to make
    todo,        \* per client: the calls that follow the current routine
    ret,         \* per client: value of the last completed call / the result
    loc,         \* per client: local variables of the workflow it runs
    op,          \* per client: the top-level operation and its arguments
    pre,         \* per client: store and catalog as they were when op began
    faults,      \* number of I/O failures injected so far
    nops,        \* number of top-level operations started so far
    rpc,         \* Database::retry: where the call of retry stands
    attempt,     \* Database::retry: attempt
    result,      \* Database::retry: result
    history,     \* Database::retry: the results op() gave in this call
    rret,        \* Database::retry: the value retry returned
    qpc,         \* app::query_image: where the call stands
    hashes,      \* app::query_image: hashes
    set,         \* app::query_image: the tasks in the JoinSet
    finished,    \* app::query_image: outputs of the finished tasks, oldest first
    map,         \* app::query_image: map
    joined,      \* app::query_image: fingerprints in the order join_next gave them
    qret,        \* app::query_image: the value it returned
    arg,         \* a call of a pure function: its argument
    out,         \* a call of a pure function: the value computed last
    fn           \* a call of a pure function: the functions applied so far

sysvars  == <<files, images, source, metadatas, tags, image_tags, tag_counts>>
catvars  == <<images, source, metadatas, tags, image_tags, tag_counts>>
diskvars == <<files>>
clientvars == <<pc, todo, ret, loc, op, pre, faults, nops>>
retryvars == <<rpc, attempt, result, history, rret>>
queryvars == <<qpc, hashes, set, finished, map, joined, qret>>
purevars == <<arg, out, fn>>
vars == <<files, images, source, metadatas, tags, image_tags, tag_counts,
          pc, todo, ret, loc, op, pre, faults, nops,
          rpc, attempt, result, history, rret,
          qpc, hashes, set, finished, map, joined, qret,
          arg, out, fn>>

-----------------------------------------------------------------------------
(* Bounds of the model.                                                    *)

\* I/O failures (filesystem or database) injected in one behaviour.
MaxFaults == 1
\* Top-level operations started in one behaviour.
MaxOps == 2

Procs == {1, 2}
NoValue == "none"
None == [kind |-> "None"]
IsNone(x) == x.kind = "None"
IsSome(x) == x.kind # "None"

-----------------------------------------------------------------------------
(* Fingerprints and their textual form (storage.rs).                       *)

\* PixelHash([u8; 8]): the two fingerprints of the repository's test data.
HashA == <<68, 165, 182, 249, 79, 79, 100, 69>>
HashB == <<6, 165, 225, 154, 253, 244, 194, 227>>
PixelHashes == {HashA, HashB}

HexDigits == <<"0", "1", "2", "3", "4", "5", "6", "7",
               "8", "9", "a", "b", "c", "d", "e", "f">>

\* format!("{:02x}", b)
Hex2(b) == <<HexDigits[(b \div 16) + 1], HexDigits[(b % 16) + 1]>>

RECURSIVE HexOfBytes(_)
HexOfBytes(bs) == IF bs = <<>> THEN <<>> ELSE Hex2(Head(bs)) \o HexOfBytes(Tail(bs))

\* impl From<PixelHash> for String
to_string(h) == HexOfBytes(h)

Dot == <<".">>
EXT_png  == <<"p", "n", "g">>
EXT_webp == <<"w", "e", "b", "p">>
EXT_mp4  == <<"m", "p", "4">>

-----------------------------------------------------------------------------
(* Paths.  A path is the sequence of its components; a component is the    *)
(* sequence of its characters.                                             *)

root_path == <<"/", "r">>

join(dir, name) == Append(dir, name)
file_name(path) == path[Len(path)]

RECURSIVE LastDot(_, _)
LastDot(name, i) ==
    IF i = 0 THEN 0 ELSE IF name[i] = "." THEN i ELSE LastDot(name, i - 1)

\* Path::extension: the characters after the last dot of the file name.
extension(path) ==
    LET name == file_name(path)
        d == LastDot(name, Len(name))
    IN  IF d <= 1 THEN <<>> ELSE SubSeq(name, d + 1, Len(name))

IsPrefix(s, t) == Len(s) <= Len(t) /\ SubSeq(t, 1, Len(s)) = s

\* derive_dir with the two shard bytes exchanged.
derive_dir_exchanged(h) == <<Hex2(h[2]), Hex2(h[1])>>

\* format!("{:02x}/{:02x}/", hash.0[0], hash.0[1])
derive_dir(h) == <<Hex2(h[1]), Hex2(h[2])>>

derive_abs_dir(h) == <<root_path>> \o derive_dir(h)

derive_filename(h, ext) == to_string(h) \o Dot \o ext

\* glob("<abs dir>/<hex>.*"): the files of the shard directory whose name
\* starts with the fingerprint and a dot.
glob(fs, h) ==
    {f \in fs : /\ Len(f) = Len(derive_abs_dir(h)) + 1
                   /\ SubSeq(f, 1, Len(f) - 1) = derive_abs_dir(h)
                   /\ IsPrefix(to_string(h) \o Dot, file_name(f))}

Image(path) == [kind |-> "Image", path |-> path]
Video(video, thumb) == [kind |-> "Video", video |-> video, thumb |-> thumb]

\* find_entry that takes any two matches for a video and its thumbnail.
classify_any_pair(entries) ==
    IF Cardinality(entries) = 1
    THEN Image(CHOOSE f \in entries : TRUE)
    ELSE IF Cardinality(entries) = 2
    THEN LET a == IF \E f \in entries : extension(f) = EXT_png
                  THEN CHOOSE f \in entries : extension(f) = EXT_png
                  ELSE CHOOSE f \in entries : TRUE
             b == CHOOSE f \in entries : f # a
         IN  Video(b, a)
    ELSE None

\* Storage::find_entry: the classification of the paths the glob matched.
classify(entries) ==
    IF Cardinality(entries) = 1
    THEN Image(CHOOSE f \in entries : TRUE)
    ELSE IF Cardinality(entries) = 2 /\ \E f \in entries : extension(f) = EXT_png
    THEN LET a == CHOOSE f \in entries : extension(f) = EXT_png
             b == CHOOSE f \in entries : f # a
         IN  Video(b, a)
    ELSE None

find_entry(h) == classify(glob(files, h))

\* Storage::index_file: the entry re-based on the relative shard directory.
index_file(h) ==
    LET p == find_entry(h)
    IN  IF IsNone(p) THEN None
        ELSE IF p.kind = "Image"
        THEN Image(join(derive_dir(h), file_name(p.path)))
        ELSE Video(join(derive_dir(h), file_name(p.video)),
                   join(derive_dir(h), file_name(p.thumb)))

content_path(p) == IF p.kind = "Image" THEN p.path ELSE p.video

-----------------------------------------------------------------------------
(* Uploaded bytes, decoding and fingerprinting (storage.rs).               *)

\* The byte strings a client can upload: the signature infer::get detects,
\* the extension of the detected type and the pixels the bytes decode to.
Uploads ==
    { [sig |-> "image", ext |-> EXT_png,  pixels |-> "A"],
      [sig |-> "image", ext |-> EXT_webp, pixels |-> "A"],
      [sig |-> "video", ext |-> EXT_mp4,  pixels |-> "B"],
      [sig |-> "other", ext |-> <<>>,     pixels |-> "-"] }

\* Values of Result.
Ok(v)  == [ok |-> TRUE,  val |-> v,    err |-> None]
Err(e) == [ok |-> FALSE, val |-> None, err |-> e]
Unit == [kind |-> "Unit"]

\* StorageError, DatabaseError and AppError values: the variant, the
\* fingerprint and path it carries, and the call that raised it.
Error(kind, h, path, at) == [kind |-> kind, hash |-> h, path |-> path, at |-> at]
HashCollision(h, path) == Error("HashCollision", h, path, "cf_find")
UnsupportedFile == Error("UnsupportedFile", <<>>, <<>>, "cf_begin")
FileNotFound(h, at) == Error("FileNotFound", h, <<>>, at)
Io(at) == Error("Io", <<>>, <<>>, at)
DatabaseError(at) == Error("Database", <<>>, <<>>, at)
StorageNotFound(h, at) == Error("StorageNotFound", h, <<>>, at)

\* Media::new: Image and Video are decoded, anything else is unsupported.
Media_new(bytes) ==
    IF bytes.sig = "image"
    THEN Ok([kind |-> "Image", content |-> bytes.pixels, ext |-> bytes.ext])
    ELSE IF bytes.sig = "video"
    THEN Ok([kind |-> "Video", content |-> bytes.pixels, ext |-> bytes.ext])
    ELSE Err(UnsupportedFile)

\* compute_pixel_hash: a function of the RGBA pixels alone.
compute_pixel_hash(pixels) == IF pixels = "A" THEN HashA ELSE HashB

-----------------------------------------------------------------------------
(* Clients.  A client runs one top-level operation at a time; pc is the    *)
(* call it makes next and todo the calls that follow once the current      *)
(* routine has returned.                                                   *)

NoPrev == [name |-> "idle", hash |-> <<>>, ok |-> TRUE, archived |-> FALSE,
           args |-> <<>>]

Idle == [name |-> "idle", bytes |-> None, tags |-> <<>>, source |-> NoValue,
         meta |-> None, hash |-> <<>>, prev |-> NoPrev]

LocInit ==
    [ bytes      |-> None,     \* create_file: bytes
      media      |-> None,     \* create_file: media
      pixel_hash |-> <<>>,     \* create_file: pixel_hash
      hash       |-> <<>>,     \* the fingerprint the workflow works on
      entry      |-> None,     \* ensure_deleted: the entry found
      meta       |-> None,     \* execute: metadata
      to_add     |-> {},       \* attach_tags: to_add
      to_remove  |-> {},       \* attach_tags: to_remove
      src        |-> NoValue,  \* attach_source: src
      path       |-> None,     \* find_image_by_hash: path
      vtags      |-> {},       \* find_image_by_hash: tags
      vmeta      |-> None,     \* find_image_by_hash: metadata
      err        |-> None,     \* execute: the error kept while compensating
      stage      |-> "start",  \* execute: how far the archive has come
      collided   |-> FALSE,    \* execute: create_file reported a collision
      exists_ans |-> NoValue,  \* execute: what image_exists answered
      create_err |-> None,     \* execute: the error create_file returned
      step_err   |-> None,     \* execute: the first error after get_metadata
      tx         |-> {},       \* refresh_image_count: tag_counts as tx sees it;
                               \* ensure_image_removed: statements run on tx
      attempt    |-> 0,        \* ensure_image_removed: attempt of its retry
      faulted    |-> FALSE ]   \* an I/O failure was injected in this operation

Snapshot ==
    [files |-> files, images |-> images, source |-> source,
     metadatas |-> metadatas, tags |-> tags, image_tags |-> image_tags,
     tag_counts |-> tag_counts]

CreatePcs == {"cf_begin", "cf_find", "cf_write", "cf_write_thumb", "cf_write_video"}
FindPcs == {"f_index", "f_get_tags", "f_get_metadata", "f_get_source"}

Ready(p) == pc[p] \in {"idle", "done"} /\ nops < MaxOps

\* The fingerprint has an asset on disk and an image row in snapshot s.
IsArchived(s, h) == IsSome(classify(glob(s.files, h))) /\ h \in s.images

\* The routines of database.rs that change the catalog.
Mutators ==
    {"ensure_image", "ensure_tags", "ensure_image_has_tags",
     "ensure_image_has_metadata", "ensure_image_has_source",
     "ensure_tags_removed", "ensure_image_removed"}

\* The call the client completed just before, if its last call was
\* remove_image or a routine that changes the catalog: on which fingerprint
\* and with which other arguments, how it ended, and whether the fingerprint
\* was archived when it began.
Completed(p) ==
    IF pc[p] = "done" /\ op[p].name \in {"remove_image"} \cup Mutators
    THEN [name |-> op[p].name, hash |-> loc[p].hash, ok |-> ret[p].ok,
          archived |-> op[p].name = "remove_image" /\ IsArchived(pre[p], loc[p].hash),
          args |-> <<op[p].tags, op[p].source, op[p].meta>>]
    ELSE NoPrev

\* The calls of the catalog routines and of the workflows of app.rs, in the
\* order the code makes them.
ensure_image == <<"ei_exists">>
ensure_image_has_metadata == ensure_image \o <<"ihm_insert">>
ensure_tags == <<"et_insert">>
ensure_image_has_tags == ensure_image \o ensure_tags \o <<"it_insert">>
ensure_image_has_source == ensure_image \o <<"is_update">>
ensure_tags_removed == <<"tr_delete">>
ensure_image_removed == <<"ir_delete">>
refresh_image_count == <<"rc_delete", "rc_insert", "rc_commit">>

attach_tags == <<"at_index", "at_get_tags">> \o ensure_image_has_tags \o ensure_tags_removed
attach_source == <<"as_index">> \o ensure_image \o ensure_image_has_source
\* remove_image that deletes the rows of the catalog before the files.
remove_image_catalog_first == <<"ir_delete", "ed_find">>
\* remove_image that deletes the files and leaves the catalog alone.
remove_image_store_only == <<"ed_find">>
remove_image == <<"ed_find">> \o ensure_image_removed
find_image_by_hash == <<"f_index", "f_get_tags", "f_get_metadata", "f_get_source">>

\* A client starts operation o, whose calls are code.
Begin(p, o, code, l) ==
    /\ Ready(p)
    /\ nops' = nops + 1
    /\ op' = [op EXCEPT ![p] = [o EXCEPT !.prev = Completed(p)]]
    /\ pc' = [pc EXCEPT ![p] = Head(code)]
    /\ todo' = [todo EXCEPT ![p] = Tail(code)]
    /\ ret' = [ret EXCEPT ![p] = Ok(Unit)]
    /\ loc' = [loc EXCEPT ![p] = l]
    /\ pre' = [pre EXCEPT ![p] = Snapshot]
    /\ UNCHANGED <<sysvars, faults, retryvars, queryvars, purevars>>

\* The current routine returns v to its caller.
Return(p, v, l) ==
    /\ pc' = [pc EXCEPT ![p] = Head(todo[p])]
    /\ todo' = [todo EXCEPT ![p] = Tail(todo[p])]
    /\ ret' = [ret EXCEPT ![p] = v]
    /\ loc' = [loc EXCEPT ![p] = l]
    /\ UNCHANGED <<op, pre, nops, retryvars, queryvars, purevars>>

\* The current routine goes on with the call at label.
Goto(p, label, l) ==
    /\ pc' = [pc EXCEPT ![p] = label]
    /\ loc' = [loc EXCEPT ![p] = l]
    /\ UNCHANGED <<todo, ret, op, pre, nops, retryvars, queryvars, purevars>>

\* collision_result with the test of image_exists inverted.
collision_result_inverted(exists, e, h) == IF exists THEN Ok(h) ELSE Err(e)

\* collision_result that adopts the asset on disk whatever the catalog says.
collision_result_adopt(exists, e, h) == Ok(h)

\* What execute makes of the HashCollision e of fingerprint h once
\* image_exists has answered: the fingerprint of the asset on disk when the
\* catalog has no row for it, the collision when it has.
collision_result(exists, e, h) == IF ~exists THEN Ok(h) ELSE Err(e)

\* An error e leaves the current call.  The ? operator returns it from the
\* top-level operation, except at the two places where execute matches on a
\* result: the result of create_file and the result of find_image_by_hash.
Raise(p, e, l) ==
    LET l1 == [l EXCEPT !.step_err = IF IsNone(@) /\ l.stage # "start" THEN e ELSE @]
    IN
    /\ UNCHANGED <<op, pre, nops, retryvars, queryvars, purevars>>
    /\ IF op[p].name = "archive" /\ pc[p] \in CreatePcs /\ e.kind = "HashCollision"
       THEN /\ pc' = [pc EXCEPT ![p] = "a_exists"]
            /\ loc' = [loc EXCEPT ![p] =
                         [l1 EXCEPT !.collided = TRUE, !.create_err = e, !.hash = e.hash]]
            /\ UNCHANGED <<todo, ret>>
       ELSE IF op[p].name = "archive" /\ pc[p] \in FindPcs
       THEN /\ pc' = [pc EXCEPT ![p] = Head(remove_image)]
            /\ todo' = [todo EXCEPT ![p] = Tail(remove_image) \o <<"a_err">>]
            /\ loc' = [loc EXCEPT ![p] = [l1 EXCEPT !.err = e, !.stage = "compensating"]]
            /\ UNCHANGED ret
       ELSE /\ pc' = [pc EXCEPT ![p] = "done"]
            /\ todo' = [todo EXCEPT ![p] = <<>>]
            /\ ret' = [ret EXCEPT ![p] = Err(e)]
            /\ loc' = [loc EXCEPT ![p] =
                         IF pc[p] \in CreatePcs THEN [l1 EXCEPT !.create_err = e] ELSE l1]

\* An injected I/O failure of the current call.
Fault(p, e) ==
    /\ faults < MaxFaults
    /\ faults' = faults + 1
    /\ Raise(p, e, [loc[p] EXCEPT !.faulted = TRUE])
    /\ UNCHANGED sysvars

-----------------------------------------------------------------------------
(* Storage::create_file (storage.rs).                                      *)

\* Media::new, compute_pixel_hash and fs::create_dir_all (which leaves the
\* files alone and can fail).
create_file_begin(p) ==
    /\ pc[p] = "cf_begin"
    /\ LET m == Media_new(loc[p].bytes)
       IN  \/ /\ ~m.ok
              /\ Raise(p, m.err, loc[p])
              /\ UNCHANGED <<sysvars, faults>>
           \/ /\ m.ok
              /\ Goto(p, "cf_find",
                      [loc[p] EXCEPT !.media = m.val,
                                     !.pixel_hash = compute_pixel_hash(m.val.content)])
              /\ UNCHANGED <<sysvars, faults>>
           \/ /\ m.ok
              /\ Fault(p, Io("cf_begin"))

\* The existence check: find_entry, and HashCollision if it finds an entry.
create_file_find(p) ==
    /\ pc[p] = "cf_find"
    /\ LET entry == find_entry(loc[p].pixel_hash)
       IN  IF IsSome(entry)
           THEN Raise(p, HashCollision(loc[p].pixel_hash, content_path(entry)), loc[p])
           ELSE Goto(p, IF loc[p].media.kind = "Video" THEN "cf_write_thumb"
                        ELSE "cf_write", loc[p])
    /\ UNCHANGED <<sysvars, faults>>

\* Media::Image: content.save_with_format(filepath, format).
create_file_write(p) ==
    /\ pc[p] = "cf_write"
    /\ LET h == loc[p].pixel_hash
           filepath == join(derive_abs_dir(h), derive_filename(h, loc[p].media.ext))
       IN  \/ /\ files' = files \cup {filepath}
              /\ Return(p, Ok(h), loc[p])
              /\ UNCHANGED <<catvars, faults>>
           \/ Fault(p, Io("cf_write"))

\* Media::Video: thumbnail.save_with_format(thumb_filepath, Png).
create_file_write_thumb(p) ==
    /\ pc[p] = "cf_write_thumb"
    /\ LET h == loc[p].pixel_hash
           thumb_filepath == join(derive_abs_dir(h), derive_filename(h, EXT_png))
       IN  \/ /\ files' = files \cup {thumb_filepath}
              /\ Goto(p, "cf_write_video", loc[p])
              /\ UNCHANGED <<catvars, faults>>
           \/ Fault(p, Io("cf_write_thumb"))

\* Media::Video: fs::write(video_filepath, raw).
create_file_write_video(p) ==
    /\ pc[p] = "cf_write_video"
    /\ LET h == loc[p].pixel_hash
           video_filepath == join(derive_abs_dir(h), derive_filename(h, loc[p].media.ext))
       IN  \/ /\ files' = files \cup {video_filepath}
              /\ Return(p, Ok(h), loc[p])
              /\ UNCHANGED <<catvars, faults>>
           \/ Fault(p, Io("cf_write_video"))

-----------------------------------------------------------------------------
(* Storage::ensure_deleted (storage.rs).                                   *)

ensure_deleted_find(p) ==
    /\ pc[p] = "ed_find"
    /\ LET entry == find_entry(loc[p].hash)
       IN  IF IsNone(entry)
           THEN Return(p, Ok(Unit), loc[p])
           ELSE Goto(p, IF entry.kind = "Image" THEN "ed_rm_image" ELSE "ed_rm_video",
                     [loc[p] EXCEPT !.entry = entry])
    /\ UNCHANGED <<sysvars, faults>>

\* fs::remove_file(path): an error when the file is not there (any more).
remove_file(p, path, at, next) ==
    \/ /\ path \in files
       /\ files' = files \ {path}
       /\ IF next = "return" THEN Return(p, Ok(Unit), loc[p]) ELSE Goto(p, next, loc[p])
       /\ UNCHANGED <<catvars, faults>>
    \/ /\ path \notin files
       /\ Raise(p, Io(at), loc[p])
       /\ UNCHANGED <<sysvars, faults>>
    \/ /\ path \in files
       /\ Fault(p, Io(at))

ensure_deleted_remove_image(p) ==
    /\ pc[p] = "ed_rm_image"
    /\ remove_file(p, loc[p].entry.path, "ed_rm_image", "return")

ensure_deleted_remove_video(p) ==
    /\ pc[p] = "ed_rm_video"
    /\ remove_file(p, loc[p].entry.video, "ed_rm_video", "ed_rm_thumb")

ensure_deleted_remove_thumb(p) ==
    /\ pc[p] = "ed_rm_thumb"
    /\ remove_file(p, loc[p].entry.thumb, "ed_rm_thumb", "return")

-----------------------------------------------------------------------------
(* Storage::get_metadata (storage.rs).                                     *)

DefaultMetadata == [kind |-> "Meta", format |-> <<>>, video |-> FALSE]

\* ImageMetadata of an entry: the format is the extension of the image or of
\* the video, the duration is present for a video.
metadata_of(entry) ==
    [kind |-> "Meta", format |-> extension(content_path(entry)),
     video |-> entry.kind = "Video"]

-----------------------------------------------------------------------------
(* The catalog (database.rs).  A statement, or a transaction of            *)
(* statements, run through Database::retry is one step; it fails as a      *)
(* whole and leaves the tables alone when the failure is injected.         *)

tags_of(h) == {t \in tags : <<h, t>> \in image_tags}

\* Database::ensure_image: image_exists, and the insert unless it exists.
ensure_image_exists(p) ==
    /\ pc[p] = "ei_exists"
    /\ \/ /\ IF loc[p].hash \in images
             THEN Return(p, Ok(Unit), loc[p])
             ELSE Goto(p, "ei_insert", loc[p])
          /\ UNCHANGED <<sysvars, faults>>
       \/ Fault(p, DatabaseError("ei_exists"))

\* INSERT INTO images (hash) VALUES (?) ON CONFLICT DO NOTHING
ensure_image_insert(p) ==
    /\ pc[p] = "ei_insert"
    /\ \/ /\ images' = images \cup {loc[p].hash}
          /\ Return(p, Ok(Unit), loc[p])
          /\ UNCHANGED <<diskvars, tag_counts, source, metadatas, tags, image_tags, faults>>
       \/ Fault(p, DatabaseError("ei_insert"))

\* Database::ensure_image_has_metadata after its ensure_image: the insert of
\* the metadata row, refused by the foreign key when the image row is gone.
ensure_image_has_metadata_insert(p) ==
    /\ pc[p] = "ihm_insert"
    /\ \/ /\ IF loc[p].hash \notin images
             THEN /\ Raise(p, DatabaseError("ihm_insert"), loc[p])
                  /\ UNCHANGED metadatas
             ELSE /\ metadatas' = [metadatas EXCEPT ![loc[p].hash] =
                                     IF IsNone(@) THEN loc[p].meta ELSE @]
                  /\ Return(p, Ok(Unit), loc[p])
          /\ UNCHANGED <<diskvars, tag_counts, images, source, tags, image_tags, faults>>
       \/ Fault(p, DatabaseError("ihm_insert"))

\* Database::ensure_tags: one transaction of INSERT INTO tags ... DO NOTHING.
ensure_tags_insert(p) ==
    /\ pc[p] = "et_insert"
    /\ \/ /\ tags' = tags \cup loc[p].to_add
          /\ Return(p, Ok(Unit), loc[p])
          /\ UNCHANGED <<diskvars, tag_counts, images, source, metadatas, image_tags, faults>>
       \/ Fault(p, DatabaseError("et_insert"))

\* ensure_image_has_tags_insert with a plain INSERT, which a row that is
\* already there makes fail.
ensure_image_has_tags_insert_strict(p) ==
    /\ pc[p] = "it_insert"
    /\ \/ /\ IF \/ loc[p].to_add # {} /\ ~(loc[p].hash \in images /\ loc[p].to_add \subseteq tags)
                \/ \E t \in loc[p].to_add : <<loc[p].hash, t>> \in image_tags
             THEN /\ Raise(p, DatabaseError("it_insert"), loc[p])
                  /\ UNCHANGED image_tags
             ELSE /\ image_tags' = image_tags \cup {<<loc[p].hash, t>> : t \in loc[p].to_add}
                  /\ Return(p, Ok(Unit), loc[p])
          /\ UNCHANGED <<diskvars, tag_counts, images, source, metadatas, tags, faults>>
       \/ Fault(p, DatabaseError("it_insert"))

\* Database::ensure_image_has_tags after ensure_image and ensure_tags: one
\* transaction of INSERT INTO image_tags ... DO NOTHING.
ensure_image_has_tags_insert(p) ==
    /\ pc[p] = "it_insert"
    /\ \/ /\ IF loc[p].to_add # {} /\ ~(loc[p].hash \in images /\ loc[p].to_add \subseteq tags)
             THEN /\ Raise(p, DatabaseError("it_insert"), loc[p])
                  /\ UNCHANGED image_tags
             ELSE /\ image_tags' = image_tags \cup {<<loc[p].hash, t>> : t \in loc[p].to_add}
                  /\ Return(p, Ok(Unit), loc[p])
          /\ UNCHANGED <<diskvars, tag_counts, images, source, metadatas, tags, faults>>
       \/ Fault(p, DatabaseError("it_insert"))

\* Database::ensure_image_has_source after its ensure_image:
\* UPDATE images SET source = ? WHERE hash = ?
ensure_image_has_source_update(p) ==
    /\ pc[p] = "is_update"
    /\ \/ /\ source' = IF loc[p].hash \in images
                       THEN [source EXCEPT ![loc[p].hash] = loc[p].src]
                       ELSE source
          /\ Return(p, Ok(Unit), loc[p])
          /\ UNCHANGED <<diskvars, tag_counts, images, metadatas, tags, image_tags, faults>>
       \/ Fault(p, DatabaseError("is_update"))

\* ensure_tags_removed_delete that keeps tag_counts in step with image_tags.
ensure_tags_removed_delete_counting(p) ==
    /\ pc[p] = "tr_delete"
    /\ \/ /\ image_tags' = image_tags \ {<<loc[p].hash, t>> : t \in loc[p].to_remove}
          /\ tag_counts' = {<<t, Cardinality({r \in image_tags' : r[2] = t})>> :
                               t \in {r[2] : r \in image_tags'}}
          /\ Return(p, Ok(Unit), loc[p])
          /\ UNCHANGED <<diskvars, images, source, metadatas, tags, faults>>
       \/ Fault(p, DatabaseError("tr_delete"))

\* Database::ensure_tags_removed: one transaction of DELETE FROM image_tags
\* WHERE image_hash = ? AND tag_name = ?
ensure_tags_removed_delete(p) ==
    /\ pc[p] = "tr_delete"
    /\ \/ /\ image_tags' = image_tags \ {<<loc[p].hash, t>> : t \in loc[p].to_remove}
          /\ Return(p, Ok(Unit), loc[p])
          /\ UNCHANGED <<diskvars, tag_counts, images, source, metadatas, tags, faults>>
       \/ Fault(p, DatabaseError("tr_delete"))

\* ensure_image_removed_delete that also deletes the tags no image carries
\* any more.
ensure_image_removed_delete_purging(p) ==
    /\ pc[p] = "ir_delete"
    /\ \/ /\ image_tags' = {r \in image_tags : r[1] # loc[p].hash}
          /\ tags' = {t \in tags : \E r \in image_tags' : r[2] = t}
          /\ images' = images \ {loc[p].hash}
          /\ metadatas' = [metadatas EXCEPT ![loc[p].hash] = None]
          /\ source' = [source EXCEPT ![loc[p].hash] = NoValue]
          /\ Return(p, Ok(Unit), loc[p])
          /\ UNCHANGED <<diskvars, tag_counts, faults>>
       \/ Fault(p, DatabaseError("ir_delete"))

\* Database::ensure_image_removed: one transaction deleting the image_tags
\* rows and the image row; the metadata row goes by ON DELETE CASCADE.
ensure_image_removed_delete(p) ==
    /\ pc[p] = "ir_delete"
    /\ \/ /\ image_tags' = {r \in image_tags : r[1] # loc[p].hash}
          /\ images' = images \ {loc[p].hash}
          /\ metadatas' = [metadatas EXCEPT ![loc[p].hash] = None]
          /\ source' = [source EXCEPT ![loc[p].hash] = NoValue]
          /\ Return(p, Ok(Unit), loc[p])
          /\ UNCHANGED <<diskvars, tag_counts, tags, faults>>
       \/ Fault(p, DatabaseError("ir_delete"))

-----------------------------------------------------------------------------
(* The orchestrator (app.rs).  A workflow is the sequence of the calls it  *)
(* makes; a routine that returns early or fails leaves it as the code does.*)

\* ArchiveImageCommand::execute
execute(cmd) ==
    <<"cf_begin", "a_meta">> \o ensure_image \o ensure_image_has_metadata
        \o (IF cmd.tags # <<>> THEN attach_tags ELSE <<>>)
        \o (IF cmd.source # NoValue THEN <<"a_src">> \o attach_source ELSE <<>>)
        \o find_image_by_hash

Elements(list) == {list[i] : i \in 1..Len(list)}

\* let metadata = storage.get_metadata(&hash)?
execute_get_metadata(p) ==
    /\ pc[p] = "a_meta"
    /\ LET h == ret[p].val
           entry == find_entry(h)
       IN  \/ /\ IF IsNone(entry)
                 THEN Raise(p, FileNotFound(h, "a_meta"), [loc[p] EXCEPT !.hash = h])
                 ELSE Return(p, Ok(Unit),
                             [loc[p] EXCEPT !.hash = h, !.meta = metadata_of(entry),
                                            !.stage = "catalog"])
              /\ UNCHANGED <<sysvars, faults>>
           \/ /\ IsSome(entry)
              /\ Fault(p, Io("a_meta"))

\* The HashCollision arm of execute: db.image_exists(hash).await?, then the
\* fingerprint of the asset on disk or the collision.
execute_image_exists(p) ==
    /\ pc[p] = "a_exists"
    /\ \/ /\ LET exists == loc[p].hash \in images
                 r == collision_result(exists, loc[p].create_err, loc[p].hash)
                 l == [loc[p] EXCEPT !.exists_ans = IF exists THEN "true" ELSE "false"]
             IN  IF r.ok THEN Return(p, r, l) ELSE Raise(p, r.err, l)
          /\ UNCHANGED <<sysvars, faults>>
       \/ Fault(p, DatabaseError("a_exists"))

\* if let Some(src) = self.source: the source handed to attach_source.
execute_source(p) ==
    /\ pc[p] = "a_src"
    /\ Return(p, ret[p], [loc[p] EXCEPT !.src = op[p].source])
    /\ UNCHANGED <<sysvars, faults>>

\* The Err arm of execute after remove_image(..).await? returned: Err(e).
execute_return_err(p) ==
    /\ pc[p] = "a_err"
    /\ pc' = [pc EXCEPT ![p] = "done"]
    /\ todo' = [todo EXCEPT ![p] = <<>>]
    /\ ret' = [ret EXCEPT ![p] = Err(loc[p].err)]
    /\ UNCHANGED <<sysvars, faults, loc, op, pre, nops, retryvars, queryvars, purevars>>

\* require_index_file that lets the workflow go on without an asset.
require_index_file_skipped(p, at) ==
    /\ pc[p] = at
    /\ Return(p, Ok(Unit), loc[p])
    /\ UNCHANGED <<sysvars, faults>>

\* attach_tags / attach_source: storage.index_file(hash).is_none()
require_index_file(p, at) ==
    /\ pc[p] = at
    /\ IF IsNone(index_file(loc[p].hash))
       THEN Raise(p, StorageNotFound(loc[p].hash, at), loc[p])
       ELSE Return(p, Ok(Unit), loc[p])
    /\ UNCHANGED <<sysvars, faults>>

attach_tags_index_file(p) == require_index_file(p, "at_index")
attach_source_index_file(p) == require_index_file(p, "as_index")

\* tags_to_add with the operands of the difference exchanged.
tags_to_add_exchanged(desired, current) == current \ desired
\* The tags attach_tags adds, given the desired and the current tags.
tags_to_add(desired, current) == desired \ current
\* tags_to_remove with the operands of the difference exchanged.
tags_to_remove_exchanged(desired, current) == desired \ current
\* The tags attach_tags removes, given the desired and the current tags.
tags_to_remove(desired, current) == current \ desired

\* Database::query_tags(TagQuery All): SELECT name FROM tags
query_tags_all == tags

\* SELECT count FROM tag_counts WHERE tag_name = ?, fetch_optional and
\* unwrap_or_default: the count of the row of tag t, 0 when there is none.
count_image_by_tag(t) ==
    IF \E r \in tag_counts : r[1] = t
    THEN (CHOOSE r \in tag_counts : r[1] = t)[2]
    ELSE 0

\* Database::count_image_by_tag: the query, run on the committed table.
count_image_by_tag_select(p) ==
    /\ pc[p] = "cb_select"
    /\ \/ /\ Return(p, Ok(count_image_by_tag(op[p].tags[1])), loc[p])
          /\ UNCHANGED <<sysvars, faults>>
       \/ Fault(p, DatabaseError("cb_select"))

\* SELECT tag_name, COUNT(*) FROM image_tags GROUP BY tag_name
refresh_tag_counts_rows ==
    {<<t, Cardinality({r \in image_tags : r[2] = t})>> : t \in {r[2] : r \in image_tags}}

\* refresh_image_count_delete run outside a transaction: the emptied table
\* is there for all to see at once.
refresh_image_count_delete_visible(p) ==
    /\ pc[p] = "rc_delete"
    /\ \/ /\ tag_counts' = {}
          /\ Return(p, Ok(Unit), [loc[p] EXCEPT !.tx = {}])
          /\ UNCHANGED <<diskvars, images, source, metadatas, tags, image_tags, faults>>
       \/ Fault(p, DatabaseError("rc_delete"))

\* Database::refresh_image_count, first statement of its transaction:
\* DELETE FROM tag_counts.  Until the commit only the transaction sees it.
refresh_image_count_delete(p) ==
    /\ pc[p] = "rc_delete"
    /\ \/ /\ Return(p, Ok(Unit), [loc[p] EXCEPT !.tx = {}])
          /\ UNCHANGED <<sysvars, faults>>
       \/ Fault(p, DatabaseError("rc_delete"))

\* Second statement: INSERT INTO tag_counts SELECT ... GROUP BY tag_name.
refresh_image_count_insert(p) ==
    /\ pc[p] = "rc_insert"
    /\ \/ /\ Return(p, Ok(Unit), [loc[p] EXCEPT !.tx = @ \cup refresh_tag_counts_rows])
          /\ UNCHANGED <<sysvars, faults>>
       \/ Fault(p, DatabaseError("rc_insert"))

\* tx.commit(): the table of the transaction becomes the table all see.  A
\* failure drops the transaction and leaves the table as it was.
refresh_image_count_commit(p) ==
    /\ pc[p] = "rc_commit"
    /\ \/ /\ tag_counts' = loc[p].tx
          /\ Return(p, Ok(Unit), loc[p])
          /\ UNCHANGED <<diskvars, images, source, metadatas, tags, image_tags, faults>>
       \/ Fault(p, DatabaseError("rc_commit"))

\* attach_tags: db.get_tags(hash) and the two set differences.
attach_tags_get_tags(p) ==
    /\ pc[p] = "at_get_tags"
    /\ \/ /\ LET desired == Elements(op[p].tags)
                 current == tags_of(loc[p].hash)
             IN  Return(p, Ok(Unit),
                        [loc[p] EXCEPT !.to_add = tags_to_add(desired, current),
                                       !.to_remove = tags_to_remove(desired, current)])
          /\ UNCHANGED <<sysvars, faults>>
       \/ Fault(p, DatabaseError("at_get_tags"))

\* find_image_by_hash: storage.index_file(hash).ok_or_else(StorageNotFound)?
find_index_file(p) ==
    /\ pc[p] = "f_index"
    /\ LET path == index_file(loc[p].hash)
       IN  IF IsNone(path)
           THEN Raise(p, StorageNotFound(loc[p].hash, "f_index"), loc[p])
           ELSE Return(p, Ok(Unit), [loc[p] EXCEPT !.path = path])
    /\ UNCHANGED <<sysvars, faults>>

find_get_tags(p) ==
    /\ pc[p] = "f_get_tags"
    /\ \/ /\ Return(p, Ok(Unit), [loc[p] EXCEPT !.vtags = tags_of(loc[p].hash)])
          /\ UNCHANGED <<sysvars, faults>>
       \/ Fault(p, DatabaseError("f_get_tags"))

\* db.get_metadata(hash).await?.unwrap_or_default()
find_get_metadata(p) ==
    /\ pc[p] = "f_get_metadata"
    /\ \/ /\ Return(p, Ok(Unit),
                    [loc[p] EXCEPT !.vmeta = IF IsNone(metadatas[loc[p].hash])
                                             THEN DefaultMetadata
                                             ELSE metadatas[loc[p].hash]])
          /\ UNCHANGED <<sysvars, faults>>
       \/ Fault(p, DatabaseError("f_get_metadata"))

\* db.get_source(hash), and the Media value find_image_by_hash returns.
find_get_source(p) ==
    /\ pc[p] = "f_get_source"
    /\ \/ /\ Return(p, Ok([kind |-> "Media", path |-> loc[p].path, hash |-> loc[p].hash,
                           tags |-> loc[p].vtags, metadata |-> loc[p].vmeta,
                           source |-> source[loc[p].hash]]),
                    [loc[p] EXCEPT !.stage = IF @ = "catalog" THEN "found" ELSE @])
          /\ UNCHANGED <<sysvars, faults>>
       \/ Fault(p, DatabaseError("f_get_source"))

\* The tag lists and sources a client sends.
TagLists == {<<>>, <<"cat">>, <<"cat", "cute">>, <<"cute", "cute">>}
Sources == {"https://example.com"}

start_execute(p) ==
    \E bytes \in Uploads, ts \in TagLists, s \in Sources \cup {NoValue} :
        LET cmd == [Idle EXCEPT !.name = "archive", !.bytes = bytes, !.tags = ts,
                                !.source = s]
        IN  Begin(p, cmd, execute(cmd) \o <<"done">>, [LocInit EXCEPT !.bytes = bytes])

start_attach_tags(p) ==
    \E h \in PixelHashes, ts \in TagLists :
        Begin(p, [Idle EXCEPT !.name = "attach_tags", !.hash = h, !.tags = ts],
              attach_tags \o <<"done">>, [LocInit EXCEPT !.hash = h])

start_attach_source(p) ==
    \E h \in PixelHashes, s \in Sources :
        Begin(p, [Idle EXCEPT !.name = "attach_source", !.hash = h, !.source = s],
              attach_source \o <<"done">>, [LocInit EXCEPT !.hash = h, !.src = s])

start_remove_image(p) ==
    \E h \in PixelHashes :
        Begin(p, [Idle EXCEPT !.name = "remove_image", !.hash = h],
              remove_image \o <<"done">>, [LocInit EXCEPT !.hash = h])

\* Direct calls of the routines of database.rs, as the tests of database.rs
\* and the handlers of web/ make them.
Metadatas ==
    {[kind |-> "Meta", format |-> EXT_png, video |-> FALSE],
     [kind |-> "Meta", format |-> EXT_mp4, video |-> TRUE]}
CatalogSources == Sources \cup {"https://example.org"}
QueriedTags == {"cat", "cute", "dog"}

start_ensure_image(p) ==
    \E h \in PixelHashes :
        Begin(p, [Idle EXCEPT !.name = "ensure_image", !.hash = h],
              ensure_image \o <<"done">>, [LocInit EXCEPT !.hash = h])

start_ensure_tags(p) ==
    \E ts \in TagLists :
        Begin(p, [Idle EXCEPT !.name = "ensure_tags", !.tags = ts],
              ensure_tags \o <<"done">>, [LocInit EXCEPT !.to_add = Elements(ts)])

start_ensure_image_has_tags(p) ==
    \E h \in PixelHashes, ts \in TagLists :
        Begin(p, [Idle EXCEPT !.name = "ensure_image_has_tags", !.hash = h, !.tags = ts],
              ensure_image_has_tags \o <<"done">>,
              [LocInit EXCEPT !.hash = h, !.to_add = Elements(ts)])

start_ensure_image_has_metadata(p) ==
    \E h \in PixelHashes, m \in Metadatas :
        Begin(p, [Idle EXCEPT !.name = "ensure_image_has_metadata", !.hash = h, !.meta = m],
              ensure_image_has_metadata \o <<"done">>,
              [LocInit EXCEPT !.hash = h, !.meta = m])

start_ensure_image_has_source(p) ==
    \E h \in PixelHashes, src \in CatalogSources :
        Begin(p, [Idle EXCEPT !.name = "ensure_image_has_source", !.hash = h,
                              !.source = src],
              ensure_image_has_source \o <<"done">>,
              [LocInit EXCEPT !.hash = h, !.src = src])

start_ensure_tags_removed(p) ==
    \E h \in PixelHashes, ts \in TagLists :
        Begin(p, [Idle EXCEPT !.name = "ensure_tags_removed", !.hash = h, !.tags = ts],
              ensure_tags_removed \o <<"done">>,
              [LocInit EXCEPT !.hash = h, !.to_remove = Elements(ts)])

start_ensure_image_removed(p) ==
    \E h \in PixelHashes :
        Begin(p, [Idle EXCEPT !.name = "ensure_image_removed", !.hash = h],
              ensure_image_removed \o <<"done">>, [LocInit EXCEPT !.hash = h])

start_refresh_image_count(p) ==
    Begin(p, [Idle EXCEPT !.name = "refresh_image_count"],
          refresh_image_count \o <<"done">>, LocInit)

start_count_image_by_tag(p) ==
    \E t \in QueriedTags :
        Begin(p, [Idle EXCEPT !.name = "count_image_by_tag", !.tags = <<t>>],
              <<"cb_select", "done">>, LocInit)

-----------------------------------------------------------------------------
(* app::query_image (app.rs): the list of fingerprints of the catalog, one *)
(* task of find_image_by_hash for each in a JoinSet, the outputs collated  *)
(* in a map, the views collected along the list.  Task i of the JoinSet is *)
(* client i.                                                               *)

\* What db.query_image can give: rows of images that the filter keeps, in
\* the order of the query.
Orderings(S) ==
    {hs \in UNION {[1..n -> S] : n \in 0..Cardinality(S)} :
        \A i, j \in DOMAIN hs : i # j => hs[i] # hs[j]}

\* The views of the map taken in the order of its keys, not of the list.
collect_by_key(hs, mp) ==
    (IF HashB \in Elements(hs) /\ IsSome(mp[HashB]) THEN <<mp[HashB]>> ELSE <<>>)
    \o (IF HashA \in Elements(hs) /\ IsSome(mp[HashA]) THEN <<mp[HashA]>> ELSE <<>>)

\* hashes.into_iter().filter_map(|h| map.remove(&h)).collect()
RECURSIVE collect(_, _)
collect(hs, mp) ==
    IF hs = <<>> THEN <<>>
    ELSE (IF IsSome(mp[Head(hs)]) THEN <<mp[Head(hs)]>> ELSE <<>>)
         \o collect(Tail(hs), [mp EXCEPT ![Head(hs)] = None])

start_query_image ==
    /\ qpc \in {"idle", "returned"}
    /\ nops < MaxOps
    /\ nops' = nops + 1
    /\ qpc' = "query"
    /\ hashes' = <<>>
    /\ map' = [h \in PixelHashes |-> None]
    /\ joined' = <<>>
    /\ qret' = Ok(Unit)
    /\ UNCHANGED <<set, finished, sysvars, retryvars, purevars, pc, todo, ret, loc, op, pre, faults>>

\* let hashes = db.query_image(query).await?
query_image_query ==
    /\ qpc = "query"
    /\ \/ /\ \E hs \in Orderings(images) : hashes' = hs
          /\ qpc' = "spawn"
          /\ UNCHANGED <<qret, faults>>
       \/ /\ faults < MaxFaults
          /\ faults' = faults + 1
          /\ qret' = Err(DatabaseError("qi_query"))
          /\ qpc' = "returned"
          /\ UNCHANGED hashes
    /\ UNCHANGED <<set, finished, map, joined, sysvars, retryvars, purevars,
                   pc, todo, ret, loc, op, pre, nops>>

\* for hash in hashes.clone() { set.spawn(find_image_by_hash(..)) }
query_image_spawn ==
    /\ qpc = "spawn"
    /\ set' = DOMAIN hashes
    /\ pc' = [p \in Procs |-> IF p \in DOMAIN hashes THEN Head(find_image_by_hash) ELSE pc[p]]
    /\ todo' = [p \in Procs |-> IF p \in DOMAIN hashes
                                THEN Tail(find_image_by_hash) \o <<"done">> ELSE todo[p]]
    /\ op' = [p \in Procs |-> IF p \in DOMAIN hashes
                              THEN [Idle EXCEPT !.name = "find_image_by_hash",
                                                !.hash = hashes[p]]
                              ELSE op[p]]
    /\ loc' = [p \in Procs |-> IF p \in DOMAIN hashes
                               THEN [LocInit EXCEPT !.hash = hashes[p]] ELSE loc[p]]
    /\ ret' = [p \in Procs |-> IF p \in DOMAIN hashes THEN Ok(Unit) ELSE ret[p]]
    /\ qpc' = "join"
    /\ UNCHANGED <<hashes, finished, map, joined, qret, sysvars, retryvars, purevars,
                   pre, faults, nops>>

\* A task of the JoinSet ends: Ok((hash, image)) or the error of find.
query_image_task_ends(p) ==
    /\ p \in set
    /\ pc[p] = "done"
    /\ pc' = [pc EXCEPT ![p] = "idle"]
    /\ finished' = Append(finished,
                          [task |-> p,
                           out |-> IF ret[p].ok THEN Ok(<<op[p].hash, ret[p].val>>)
                                   ELSE ret[p]])
    /\ UNCHANGED <<qpc, hashes, set, map, joined, qret, sysvars, retryvars, purevars,
                   todo, ret, loc, op, pre, faults, nops>>

\* while let Some(result) = set.join_next().await { match result { .. } }
\* An error returns at once and drops the JoinSet, which aborts its tasks.
query_image_join ==
    /\ qpc = "join"
    /\ IF set = {}
       THEN /\ qpc' = "collect"
            /\ UNCHANGED <<set, finished, map, joined, qret, pc, todo>>
       ELSE /\ finished # <<>>
            /\ LET joined_result == Head(finished)
               IN  IF joined_result.out.ok
                   THEN /\ map' = [map EXCEPT ![joined_result.out.val[1]] = joined_result.out.val[2]]
                        /\ joined' = Append(joined, joined_result.out.val[1])
                        /\ set' = set \ {joined_result.task}
                        /\ finished' = Tail(finished)
                        /\ UNCHANGED <<qpc, qret, pc, todo>>
                   ELSE /\ qret' = Err(joined_result.out.err)
                        /\ qpc' = "returned"
                        /\ set' = {}
                        /\ finished' = <<>>
                        /\ pc' = [p \in Procs |-> "idle"]
                        /\ todo' = [p \in Procs |-> <<>>]
                        /\ UNCHANGED <<map, joined>>
    /\ UNCHANGED <<hashes, sysvars, retryvars, purevars, ret, loc, op, pre, faults, nops>>

\* let images = hashes.into_iter().filter_map(..).collect(); Ok(images)
query_image_collect ==
    /\ qpc = "collect"
    /\ qret' = Ok(collect(hashes, map))
    /\ qpc' = "returned"
    /\ UNCHANGED <<hashes, set, finished, map, joined, sysvars, retryvars, purevars, clientvars>>

-----------------------------------------------------------------------------
(* Database::retry (database.rs): the wrapper every statement runs in.     *)

\* let max_retries = 3
max_retries == 3

\* The kinds of sqlx::Error an attempt can end with, and the two variants of
\* DatabaseError that carry one.
SqlxErrors == {"Io", "Protocol", "PoolTimedOut", "RowNotFound", "Database"}
QueryFailed(src) == [variant |-> "QueryFailed", source |-> src]
TransactionFailed(src) == [variant |-> "TransactionFailed", source |-> src]
DatabaseErrors ==
    {QueryFailed(src) : src \in SqlxErrors} \cup {TransactionFailed(src) : src \in SqlxErrors}

\* What op().await can give.
OpResults == {Ok([kind |-> "Value"])} \cup {Err(e) : e \in DatabaseErrors}

\* is_retryable_kind that takes every error for a transient one.
is_retryable_kind_any(src) == TRUE

is_retryable_kind(src) == src = "Io" \/ src = "Protocol" \/ src = "PoolTimedOut"

\* DatabaseError::is_retryable
is_retryable(e) ==
    IF e.variant = "QueryFailed" THEN is_retryable_kind(e.source)
    ELSE is_retryable_kind(e.source)

\* The guard of the retrying arm with <= in place of <.
retry_guard_inclusive(e, n) == is_retryable(e) /\ n + 1 <= max_retries

\* Err(ref e) if e.is_retryable() && attempt + 1 < max_retries
retry_guard(e, n) == is_retryable(e) /\ n + 1 < max_retries

\* A statement calls retry(op).
retry_begin ==
    /\ rpc \in {"idle", "returned"}
    /\ rpc' = "for"
    /\ attempt' = 0
    /\ history' = <<>>
    /\ UNCHANGED <<result, rret, sysvars, clientvars, queryvars, purevars>>

\* for attempt in 0..max_retries: the next iteration, or the statement after
\* the loop, which is unreachable!().
retry_for ==
    /\ rpc = "for"
    /\ rpc' = IF attempt < max_retries THEN "op" ELSE "unreachable"
    /\ UNCHANGED <<attempt, result, history, rret, sysvars, clientvars, queryvars, purevars>>

\* let result = op().await
retry_op ==
    /\ rpc = "op"
    /\ \E r \in OpResults :
          /\ result' = r
          /\ history' = Append(history, r)
    /\ rpc' = "match"
    /\ UNCHANGED <<attempt, rret, sysvars, clientvars, queryvars, purevars>>

\* match result: return Ok(v), sleep and continue, or return Err(e).
retry_match ==
    /\ rpc = "match"
    /\ IF result.ok
       THEN rpc' = "returned" /\ rret' = result
       ELSE IF retry_guard(result.err, attempt)
       THEN rpc' = "sleep" /\ UNCHANGED rret
       ELSE rpc' = "returned" /\ rret' = result
    /\ UNCHANGED <<attempt, result, history, sysvars, clientvars, queryvars, purevars>>

\* tokio::time::sleep(300 ms).await; continue
retry_sleep ==
    /\ rpc = "sleep"
    /\ rpc' = "for"
    /\ attempt' = attempt + 1
    /\ UNCHANGED <<result, history, rret, sysvars, clientvars, queryvars, purevars>>

\* The steps of a call of retry that is under way.
retry_run == retry_for \/ retry_op \/ retry_match \/ retry_sleep

-----------------------------------------------------------------------------
(* Database::ensure_image_removed statement by statement: the transaction  *)
(* it opens inside Database::retry, its two DELETEs and its commit.  What  *)
(* the statements did is seen by the transaction alone until the commit;   *)
(* an attempt that fails drops the transaction, which rolls it back.       *)

\* The kinds of failure injected in a statement: one retry takes for
\* transient and one it does not.
InjectedKinds == {"Io", "Database"}

ensure_image_removed_tx == <<"irt_begin", "irt_tags", "irt_image", "irt_commit">>

start_ensure_image_removed_tx(p) ==
    \E h \in PixelHashes :
        Begin(p, [Idle EXCEPT !.name = "ensure_image_removed", !.hash = h],
              ensure_image_removed_tx \o <<"done">>, [LocInit EXCEPT !.hash = h])

\* An attempt fails with error e at statement at: the arm of retry that goes
\* round again with a new transaction, or the arm that returns the error.
ensure_image_removed_failed(p, e, at) ==
    /\ IF retry_guard(e, loc[p].attempt)
       THEN /\ pc' = [pc EXCEPT ![p] = Head(ensure_image_removed_tx)]
            /\ todo' = [todo EXCEPT ![p] = Tail(ensure_image_removed_tx) \o <<"done">>]
            /\ loc' = [loc EXCEPT ![p] = [@ EXCEPT !.attempt = @ + 1, !.tx = {},
                                                   !.faulted = TRUE]]
            /\ UNCHANGED <<ret, op, pre, nops, retryvars, queryvars, purevars>>
       ELSE Raise(p, DatabaseError(at), [loc[p] EXCEPT !.tx = {}, !.faulted = TRUE])
    /\ UNCHANGED <<sysvars, faults>>

\* A DELETE that acts on the committed tables at once, outside the
\* transaction.
ensure_image_removed_delete_tags_autocommit(p) ==
    /\ pc[p] = "irt_tags"
    /\ \/ /\ image_tags' = {r \in image_tags : r[1] # loc[p].hash}
          /\ Return(p, Ok(Unit), [loc[p] EXCEPT !.tx = @ \cup {"delete_tags"}])
          /\ UNCHANGED <<diskvars, tag_counts, images, source, metadatas, tags, faults>>
       \/ \E k \in InjectedKinds :
             ensure_image_removed_failed(p, QueryFailed(k), "irt_tags")

\* self.pool.begin()
ensure_image_removed_begin(p) ==
    /\ pc[p] = "irt_begin"
    /\ \/ /\ Return(p, Ok(Unit), [loc[p] EXCEPT !.tx = {}])
          /\ UNCHANGED <<sysvars, faults>>
       \/ \E k \in InjectedKinds :
             ensure_image_removed_failed(p, TransactionFailed(k), "irt_begin")

\* DELETE FROM image_tags WHERE image_hash = ?, on tx
ensure_image_removed_delete_tags(p) ==
    /\ pc[p] = "irt_tags"
    /\ \/ /\ Return(p, Ok(Unit), [loc[p] EXCEPT !.tx = @ \cup {"delete_tags"}])
          /\ UNCHANGED <<sysvars, faults>>
       \/ \E k \in InjectedKinds :
             ensure_image_removed_failed(p, QueryFailed(k), "irt_tags")

\* DELETE FROM images WHERE hash = ?, on tx
ensure_image_removed_delete_image(p) ==
    /\ pc[p] = "irt_image"
    /\ \/ /\ Return(p, Ok(Unit), [loc[p] EXCEPT !.tx = @ \cup {"delete_image"}])
          /\ UNCHANGED <<sysvars, faults>>
       \/ \E k \in InjectedKinds :
             ensure_image_removed_failed(p, QueryFailed(k), "irt_image")

\* tx.commit(): the deletes of the transaction reach the tables; the rows of
\* image_metadatas and image_tags of a deleted image go by ON DELETE CASCADE.
ensure_image_removed_commit(p) ==
    /\ pc[p] = "irt_commit"
    /\ \/ /\ LET h == loc[p].hash
                 gone == "delete_image" \in loc[p].tx
                 untagged == gone \/ "delete_tags" \in loc[p].tx
             IN  /\ image_tags' = IF untagged THEN {r \in image_tags : r[1] # h}
                                   ELSE image_tags
                 /\ images' = IF gone THEN images \ {h} ELSE images
                 /\ metadatas' = IF gone THEN [metadatas EXCEPT ![h] = None] ELSE metadatas
                 /\ source' = IF gone THEN [source EXCEPT ![h] = NoValue] ELSE source
          /\ Return(p, Ok(Unit), [loc[p] EXCEPT !.tx = {}])
          /\ UNCHANGED <<diskvars, tag_counts, tags, faults>>
       \/ \E k \in InjectedKinds :
             ensure_image_removed_failed(p, TransactionFailed(k), "irt_commit")

-----------------------------------------------------------------------------
(* The media store used directly by concurrent callers.                    *)

start_create_file(p) ==
    \E bytes \in Uploads :
        Begin(p, [Idle EXCEPT !.name = "create_file", !.bytes = bytes],
              <<"cf_begin", "done">>, [LocInit EXCEPT !.bytes = bytes])

start_ensure_deleted(p) ==
    \E h \in PixelHashes :
        Begin(p, [Idle EXCEPT !.name = "ensure_deleted", !.hash = h],
              <<"ed_find", "done">>, [LocInit EXCEPT !.hash = h])

\* The tables and the disk after the archive of the repository's test image
\* with tags ["cat"] and a source (app.rs, test_remove_image).
Archived ==
    [files |-> {join(derive_abs_dir(HashA), derive_filename(HashA, EXT_png))},
     images |-> {HashA},
     source |-> [h \in PixelHashes |-> IF h = HashA THEN "https://example.com" ELSE NoValue],
     metadatas |-> [h \in PixelHashes |->
                      IF h = HashA THEN [kind |-> "Meta", format |-> EXT_png, video |-> FALSE]
                      ELSE None],
     tags |-> {"cat"},
     image_tags |-> {<<HashA, "cat">>},
     tag_counts |-> {}]

\* A new store and catalog.
Empty ==
    [files |-> {}, images |-> {}, source |-> [h \in PixelHashes |-> NoValue],
     metadatas |-> [h \in PixelHashes |-> None], tags |-> {}, image_tags |-> {},
     tag_counts |-> {}]

\* The catalog after more calls: a second image row without an asset, tags
\* on both images, a tag no image carries, and counts refreshed when the
\* first image carried "cat" alone.
Tagged ==
    [Archived EXCEPT !.images = {HashA, HashB},
                     !.tags = {"cat", "cute", "dog"},
                     !.image_tags = {<<HashA, "cat">>, <<HashA, "cute">>, <<HashB, "cute">>},
                     !.tag_counts = {<<"cat", 1>>}]

\* The same catalog once the second image has its asset, a video.
Stored ==
    [Tagged EXCEPT !.files = @ \cup {join(derive_abs_dir(HashB), derive_filename(HashB, EXT_mp4)),
                                     join(derive_abs_dir(HashB), derive_filename(HashB, EXT_png))},
                   !.metadatas = [@ EXCEPT ![HashB] =
                                    [kind |-> "Meta", format |-> EXT_mp4, video |-> TRUE]]]

\* The clients are idle and the store and catalog are one of states.
SystemStart(states) ==
    /\ \E s \in states :
          /\ files = s.files
          /\ images = s.images
          /\ source = s.source
          /\ metadatas = s.metadatas
          /\ tags = s.tags
          /\ image_tags = s.image_tags
          /\ tag_counts = s.tag_counts
          /\ pre = [p \in Procs |-> s]
    /\ pc = [p \in Procs |-> "idle"]
    /\ todo = [p \in Procs |-> <<>>]
    /\ ret = [p \in Procs |-> Ok(Unit)]
    /\ loc = [p \in Procs |-> LocInit]
    /\ op = [p \in Procs |-> Idle]
    /\ faults = 0
    /\ nops = 0
    /\ rpc = "idle"
    /\ attempt = 0
    /\ result = Ok(Unit)
    /\ history = <<>>
    /\ rret = Ok(Unit)
    /\ qpc = "idle"
    /\ hashes = <<>>
    /\ set = {}
    /\ finished = <<>>
    /\ map = [h \in PixelHashes |-> None]
    /\ joined = <<>>
    /\ qret = Ok(Unit)

\* The same, with no call of a pure function under way.
Start(states) ==
    /\ SystemStart(states)
    /\ arg = NoValue
    /\ out = NoValue
    /\ fn = "none"

\* The clients are idle; the store is new or holds one archived image.
Init == Start({Empty, Archived})

StoreStep(p) ==
    \/ start_create_file(p)
    \/ start_ensure_deleted(p)
    \/ create_file_begin(p)
    \/ create_file_find(p)
    \/ create_file_write(p)
    \/ create_file_write_thumb(p)
    \/ create_file_write_video(p)
    \/ ensure_deleted_find(p)
    \/ ensure_deleted_remove_image(p)
    \/ ensure_deleted_remove_video(p)
    \/ ensure_deleted_remove_thumb(p)

NextStore == \E p \in Procs : StoreStep(p)

\* Concurrent callers of the media store.
SpecStore == Init /\ [][NextStore]_vars

-----------------------------------------------------------------------------
(* One client of the orchestrator.                                         *)

Clients == {1}

Step(p) ==
    \/ start_execute(p)
    \/ start_attach_tags(p)
    \/ start_attach_source(p)
    \/ start_remove_image(p)
    \/ create_file_begin(p)
    \/ create_file_find(p)
    \/ create_file_write(p)
    \/ create_file_write_thumb(p)
    \/ create_file_write_video(p)
    \/ execute_image_exists(p)
    \/ execute_get_metadata(p)
    \/ execute_source(p)
    \/ execute_return_err(p)
    \/ ensure_image_exists(p)
    \/ ensure_image_insert(p)
    \/ ensure_image_has_metadata_insert(p)
    \/ ensure_tags_insert(p)
    \/ ensure_image_has_tags_insert(p)
    \/ ensure_image_has_source_update(p)
    \/ ensure_tags_removed_delete(p)
    \/ ensure_image_removed_delete(p)
    \/ attach_tags_index_file(p)
    \/ attach_tags_get_tags(p)
    \/ attach_source_index_file(p)
    \/ find_index_file(p)
    \/ find_get_tags(p)
    \/ find_get_metadata(p)
    \/ find_get_source(p)
    \/ ensure_deleted_find(p)
    \/ ensure_deleted_remove_image(p)
    \/ ensure_deleted_remove_video(p)
    \/ ensure_deleted_remove_thumb(p)

Next == \E p \in Clients : Step(p)

Spec == Init /\ [][Next]_vars

-----------------------------------------------------------------------------
(* Callers of the catalog: one that changes it and refreshes the counts,   *)
(* one that reads the counts while the first runs.                         *)

Writer == 1
Reader == 2

WriterStep(p) ==
    \/ start_ensure_image(p)
    \/ start_ensure_tags(p)
    \/ start_ensure_image_has_tags(p)
    \/ start_ensure_image_has_metadata(p)
    \/ start_ensure_image_has_source(p)
    \/ start_ensure_tags_removed(p)
    \/ start_ensure_image_removed(p)
    \/ start_refresh_image_count(p)
    \/ ensure_image_exists(p)
    \/ ensure_image_insert(p)
    \/ ensure_image_has_metadata_insert(p)
    \/ ensure_tags_insert(p)
    \/ ensure_image_has_tags_insert(p)
    \/ ensure_image_has_source_update(p)
    \/ ensure_tags_removed_delete(p)
    \/ ensure_image_removed_delete(p)
    \/ refresh_image_count_delete(p)
    \/ refresh_image_count_insert(p)
    \/ refresh_image_count_commit(p)

ReaderStep(p) ==
    \/ start_count_image_by_tag(p)
    \/ count_image_by_tag_select(p)

NextCatalog == WriterStep(Writer) \/ ReaderStep(Reader)

InitCatalog == Start({Empty, Archived, Tagged})

SpecCatalog == InitCatalog /\ [][NextCatalog]_vars

-----------------------------------------------------------------------------
(* A caller of Database::ensure_image_removed, statement by statement.     *)

RemovedStep(p) ==
    \/ start_ensure_image_removed_tx(p)
    \/ ensure_image_removed_begin(p)
    \/ ensure_image_removed_delete_tags(p)
    \/ ensure_image_removed_delete_image(p)
    \/ ensure_image_removed_commit(p)

NextRemoved == RemovedStep(Writer)

InitRemoved == Start({Empty, Archived, Tagged, Stored})

SpecRemoved == InitRemoved /\ [][NextRemoved]_vars

-----------------------------------------------------------------------------
(* Two clients that archive uploads of the same pixels at the same time.   *)

SamePixels == {u \in Uploads : u.sig = "image" /\ u.pixels = "A"}

start_execute_same(p) ==
    \E bytes \in SamePixels :
        LET cmd == [Idle EXCEPT !.name = "archive", !.bytes = bytes]
        IN  Begin(p, cmd, execute(cmd) \o <<"done">>, [LocInit EXCEPT !.bytes = bytes])

ArchiveStep(p) ==
    \/ start_execute_same(p)
    \/ create_file_begin(p)
    \/ create_file_find(p)
    \/ create_file_write(p)
    \/ execute_image_exists(p)
    \/ execute_get_metadata(p)
    \/ execute_return_err(p)
    \/ ensure_image_exists(p)
    \/ ensure_image_insert(p)
    \/ ensure_image_has_metadata_insert(p)
    \/ find_index_file(p)
    \/ find_get_tags(p)
    \/ find_get_metadata(p)
    \/ find_get_source(p)
    \/ ensure_deleted_find(p)
    \/ ensure_deleted_remove_image(p)
    \/ ensure_image_removed_delete(p)

NextArchive == \E p \in Procs : ArchiveStep(p)

InitArchive == Start({Empty})

SpecArchive == InitArchive /\ [][NextArchive]_vars

-----------------------------------------------------------------------------
(* Calls of app::query_image.                                              *)

TaskStep(p) ==
    \/ find_index_file(p)
    \/ find_get_tags(p)
    \/ find_get_metadata(p)
    \/ find_get_source(p)
    \/ query_image_task_ends(p)

NextQuery ==
    \/ start_query_image
    \/ query_image_query
    \/ query_image_spawn
    \/ \E p \in Procs : TaskStep(p)
    \/ query_image_join
    \/ query_image_collect

InitQuery == Start({Archived, Tagged, Stored})

SpecQuery == InitQuery /\ [][NextQuery]_vars

-----------------------------------------------------------------------------
(* Calls of Database::retry.                                               *)

NextRetry ==
    \/ retry_begin
    \/ retry_for
    \/ retry_op
    \/ retry_match
    \/ retry_sleep

\* Calls of retry; the runtime keeps a call that is under way running: op()
\* and the sleep complete.
SpecRetry == Init /\ [][NextRetry]_vars /\ WF_vars(retry_run)

-----------------------------------------------------------------------------
(* PixelHash and 64-bit integers (storage.rs).  A 64-bit integer is the    *)
(* sequence of its eight base-256 digits, the lowest first; the highest    *)
(* digit of an i64 is signed (-128..127), that of a u64 is not (0..255).   *)

\* impl From<PixelHash> for u64: u64::from_be_bytes(value.0)
u64_from(h) == [i \in 1..8 |-> h[9 - i]]

\* impl From<u64> for PixelHash: PixelHash(value.to_be_bytes())
PixelHash_from(v) == [i \in 1..8 |-> v[9 - i]]

\* v as i64 and v as u64: the same 64 bits read the other way.
as_i64(v) == [v EXCEPT ![8] = IF @ >= 128 THEN @ - 256 ELSE @]
as_u64(x) == [x EXCEPT ![8] = IF @ < 0 THEN @ + 256 ELSE @]

\* b ^ 0x80 on the bits of a byte.
xor_0x80(b) == IF b >= 128 THEN b - 128 ELSE b + 128

\* x ^ 0x8000_0000_0000_0000 on an i64 and on a u64: bit 63 is flipped.
xor_sign_i64(x) == as_i64([as_u64(x) EXCEPT ![8] = xor_0x80(@)])
xor_sign_u64(v) == [v EXCEPT ![8] = xor_0x80(@)]

\* to_signed without the XOR: the bits of the u64 read as an i64.
to_signed_cast(h) == as_i64(u64_from(h))

\* PixelHash::to_signed
to_signed(h) == xor_sign_i64(as_i64(u64_from(h)))

\* PixelHash::from_signed
from_signed(v) == PixelHash_from(xor_sign_u64(as_u64(v)))

\* a < b for two integers of the same type.
Less(a, b) == \E i \in 1..8 : a[i] < b[i] /\ \A j \in (i + 1)..8 : a[j] = b[j]

i64_MIN == [i \in 1..8 |-> IF i = 8 THEN -128 ELSE 0]
i64_MAX == [i \in 1..8 |-> IF i = 8 THEN 127 ELSE 255]

\* Fingerprints around the ends of the range and around the change of sign,
\* and the two of the repository's tests.
HashSamples ==
    {<<b1, m, m, m, m, m, m, b8>> : b1 \in {0, 127, 128, 255}, m \in {0, 255},
                                    b8 \in {0, 1, 255}}
        \cup PixelHashes

\* Signed integers around the ends of the range and around zero.
SignedSamples ==
    {[i \in 1..8 |-> IF i = 8 THEN t ELSE IF i = 1 THEN l ELSE m] :
        t \in {-128, -1, 0, 127}, m \in {0, 255}, l \in {0, 1, 255}}

\* The caller sorts two fingerprints by to_signed and reads them back.
apply_to_signed ==
    /\ fn = "init" /\ arg.kind = "hashes"
    /\ out' = <<to_signed(arg.a), to_signed(arg.b)>>
    /\ fn' = "to_signed"
    /\ UNCHANGED <<arg, sysvars, clientvars, retryvars, queryvars>>

apply_from_signed_after ==
    /\ fn = "to_signed"
    /\ out' = <<from_signed(out[1]), from_signed(out[2])>>
    /\ fn' = "to_signed, from_signed"
    /\ UNCHANGED <<arg, sysvars, clientvars, retryvars, queryvars>>

\* The caller makes a fingerprint of a signed integer and converts it back.
apply_from_signed ==
    /\ fn = "init" /\ arg.kind = "signed"
    /\ out' = from_signed(arg.v)
    /\ fn' = "from_signed"
    /\ UNCHANGED <<arg, sysvars, clientvars, retryvars, queryvars>>

apply_to_signed_after ==
    /\ fn = "from_signed"
    /\ out' = to_signed(out)
    /\ fn' = "from_signed, to_signed"
    /\ UNCHANGED <<arg, sysvars, clientvars, retryvars, queryvars>>

NextSigned ==
    \/ apply_to_signed
    \/ apply_from_signed_after
    \/ apply_from_signed
    \/ apply_to_signed_after

InitSigned ==
    /\ SystemStart({Empty})
    /\ arg \in {[kind |-> "hashes", a |-> a, b |-> b] : a, b \in HashSamples}
               \cup {[kind |-> "signed", v |-> v] : v \in SignedSamples}
    /\ out = NoValue
    /\ fn = "init"

SpecSigned == InitSigned /\ [][NextSigned]_vars

-----------------------------------------------------------------------------
(* PixelHash and its hexadecimal text (storage.rs).  A string is the       *)
(* sequence of its characters; a character takes one byte of the string's  *)
(* UTF-8 form, or two.                                                     *)

InvalidLength == [kind |-> "InvalidLength"]
InvalidHex == [kind |-> "InvalidHex"]

\* The thread panics.
Panic == [ok |-> FALSE, val |-> None, err |-> [kind |-> "panic"]]

\* char::len_utf8
len_utf8(c) == IF c = "é" THEN 2 ELSE 1

\* String::len: the number of bytes.
RECURSIVE str_len(_)
str_len(str) == IF str = <<>> THEN 0 ELSE len_utf8(Head(str)) + str_len(Tail(str))

\* str::is_char_boundary
is_char_boundary(str, n) == \E k \in 0..Len(str) : str_len(SubSeq(str, 1, k)) = n

\* &value[lo..hi] once both ends are character boundaries.
slice(str, lo, hi) ==
    LET first == CHOOSE k \in 0..Len(str) : str_len(SubSeq(str, 1, k)) = lo
        last == CHOOSE k \in 0..Len(str) : str_len(SubSeq(str, 1, k)) = hi
    IN  SubSeq(str, first + 1, last)

UpperHexDigits == <<"0", "1", "2", "3", "4", "5", "6", "7",
                    "8", "9", "A", "B", "C", "D", "E", "F">>

\* char::to_digit(16) is Some: c is a digit of base 16, in either case.
is_digit(c) == \E i \in 1..16 : HexDigits[i] = c \/ UpperHexDigits[i] = c

\* char::to_digit(16): the value of a digit.
to_digit(c) == (CHOOSE i \in 1..16 : HexDigits[i] = c \/ UpperHexDigits[i] = c) - 1

\* The value of a string of digits in base 16.
RECURSIVE digits_value(_)
digits_value(ds) ==
    IF ds = <<>> THEN 0 ELSE 16 * digits_value(SubSeq(ds, 1, Len(ds) - 1)) + to_digit(ds[Len(ds)])

\* u8::from_str_radix(src, 16): an optional + sign, then one digit or more,
\* of a value that fits a byte.
from_str_radix(src) ==
    LET digits == IF src # <<>> /\ Head(src) = "+" THEN Tail(src) ELSE src
    IN  IF digits = <<>> \/ \E i \in DOMAIN digits : ~is_digit(digits[i])
        THEN Err([kind |-> "ParseIntError"])
        ELSE IF digits_value(digits) > 255 THEN Err([kind |-> "ParseIntError"])
        ELSE Ok(digits_value(digits))

\* The loop of try_from from byte i on, bytes being those decoded so far.
RECURSIVE try_from_bytes(_, _, _)
try_from_bytes(value, i, bytes) ==
    IF i = 8 THEN Ok(bytes)
    ELSE IF ~is_char_boundary(value, i * 2) \/ ~is_char_boundary(value, i * 2 + 2)
    THEN Panic
    ELSE LET byte == from_str_radix(slice(value, i * 2, i * 2 + 2))
         IN  IF byte.ok THEN try_from_bytes(value, i + 1, Append(bytes, byte.val))
             ELSE Err(InvalidHex)

\* impl TryFrom<String> for PixelHash
try_from(value) ==
    IF str_len(value) # 16 THEN Err(InvalidLength) ELSE try_from_bytes(value, 0, <<>>)

\* The characters put in the place of a digit.
OddChars == {"0", "f", "A", "F", "g", "Z", "+", "-", " "}

\* The texts handed to try_from: the text of a fingerprint whole, cut short
\* or made longer, with one character replaced, with two, and with a
\* character of two bytes in the place of two digits or of one.
HexStrings ==
    LET texts == {to_string(h) : h \in PixelHashes}
    IN  UNION {
          {SubSeq(t, 1, n) : n \in 0..16}
          \cup {t \o <<c>> : c \in OddChars}
          \cup {[t EXCEPT ![i] = c] : i \in 1..16, c \in OddChars}
          \cup {[t EXCEPT ![i] = "+", ![i + 2] = c] : i \in 1..14, c \in {"+", "g"}}
          \cup {SubSeq(t, 1, i - 1) \o <<"é">> \o SubSeq(t, i + 2, 16) : i \in 1..15}
          \cup {[t EXCEPT ![i] = "é"] : i \in 1..16}
          : t \in texts }

apply_try_from ==
    /\ fn = "init" /\ arg.kind = "string"
    /\ out' = try_from(arg.s)
    /\ fn' = "try_from"
    /\ UNCHANGED <<arg, sysvars, clientvars, retryvars, queryvars>>

\* The fingerprint try_from gave is written out again.
apply_to_string_after ==
    /\ fn = "try_from" /\ out.ok
    /\ out' = to_string(out.val)
    /\ fn' = "try_from, to_string"
    /\ UNCHANGED <<arg, sysvars, clientvars, retryvars, queryvars>>

apply_to_string ==
    /\ fn = "init" /\ arg.kind = "hash"
    /\ out' = to_string(arg.h)
    /\ fn' = "to_string"
    /\ UNCHANGED <<arg, sysvars, clientvars, retryvars, queryvars>>

\* The text of a fingerprint is read back.
apply_try_from_after ==
    /\ fn = "to_string"
    /\ out' = try_from(out)
    /\ fn' = "to_string, try_from"
    /\ UNCHANGED <<arg, sysvars, clientvars, retryvars, queryvars>>

NextHex ==
    \/ apply_try_from
    \/ apply_to_string_after
    \/ apply_to_string
    \/ apply_try_from_after

InitHex ==
    /\ SystemStart({Empty})
    /\ arg \in {[kind |-> "string", s |-> str] : str \in HexStrings}
               \cup {[kind |-> "hash", h |-> h] : h \in HashSamples}
    /\ out = NoValue
    /\ fn = "init"

SpecHex == InitHex /\ [][NextHex]_vars

-----------------------------------------------------------------------------
(* The query parser (parser.rs).  The input is the sequence of its         *)
(* characters; a parser returns what it read and the rest of the input, an *)
(* error with the input it stopped at, or the thread panics.               *)

Tag(name) == [node |-> "Tag", tag |-> name]
And(lhs, rhs) == [node |-> "And", lhs |-> lhs, rhs |-> rhs]
Or(lhs, rhs) == [node |-> "Or", lhs |-> lhs, rhs |-> rhs]
Not(expr) == [node |-> "Not", expr |-> expr]
DateUntil(dt) == [node |-> "DateUntil", dt |-> dt]
DateSince(dt) == [node |-> "DateSince", dt |-> dt]

POk(rest, val) == [res |-> "Ok", rest |-> rest, val |-> val]
\* from_error_kind
PError(input) == [res |-> "Error", kind |-> "UnexpectedToken", location |-> input]
PPanic == [res |-> "Panic"]

DecDigits == {"0", "1", "2", "3", "4", "5", "6", "7", "8", "9"}
Letters == {"a", "b", "c", "d", "e", "f", "g", "h", "i", "j", "k", "l", "m",
            "n", "o", "p", "q", "r", "s", "t", "u", "v", "w", "x", "y", "z",
            "A", "B", "C", "D", "E", "F", "G", "H", "I", "J", "K", "L", "M",
            "N", "O", "P", "Q", "R", "S", "T", "U", "V", "W", "X", "Y", "Z"}

is_alphanumeric(c) == c \in Letters \cup DecDigits
is_tag_char == {c \in Letters \cup DecDigits \cup {"_"} : is_alphanumeric(c) \/ c = "_"}
is_datetime_char == DecDigits \cup {"-", ":", ".", "T", "Z"}
is_space(c) == c \in {" ", "\t", "\n", "\r"}

\* multispace0: the input after its leading white space.
RECURSIVE multispace0(_)
multispace0(input) ==
    IF input # <<>> /\ is_space(Head(input)) THEN multispace0(Tail(input)) ELSE input

\* The white space after what a parser read (the closing half of ws).
ws(r) == IF r.res = "Ok" THEN [r EXCEPT !.rest = multispace0(@)] ELSE r

\* ws(t(word)); char(c) is the same parser for a word of one character.
ws_t(word, input) ==
    LET i == multispace0(input)
    IN  IF Len(i) >= Len(word) /\ SubSeq(i, 1, Len(word)) = word
        THEN ws(POk(SubSeq(i, Len(word) + 1, Len(i)), word))
        ELSE PError(i)

\* ws(take_while1(cond)), cond the set of the characters it holds of.
take_while1(cond, input) ==
    LET i == multispace0(input)
        n == CHOOSE k \in 0..Len(i) :
                 /\ \A j \in 1..k : i[j] \in cond
                 /\ k = Len(i) \/ i[k + 1] \notin cond
    IN  IF n = 0 THEN PError(i) ELSE ws(POk(SubSeq(i, n + 1, Len(i)), SubSeq(i, 1, n)))

kw_OR == <<"O", "R">>
kw_AND == <<"A", "N", "D">>
kw_NOT == <<"N", "O", "T">>
kw_date == <<"d", "a", "t", "e">>
op_ge == <<">", "=">>
op_le == <<"<", "=">>

\* The number a string of decimal digits denotes.
RECURSIVE number(_)
number(ds) ==
    IF ds = <<>> THEN 0 ELSE 10 * number(SubSeq(ds, 1, Len(ds) - 1)) + to_digit(ds[Len(ds)])

days_in_month(year, month) ==
    IF month = 2
    THEN IF year % 4 = 0 /\ (year % 100 # 0 \/ year % 400 = 0) THEN 29 ELSE 28
    ELSE IF month \in {4, 6, 9, 11} THEN 30 ELSE 31

\* The fields of yyyy-mm-ddThh:mm:ss[.f]Z.
date_fields(str) ==
    [year |-> number(SubSeq(str, 1, 4)), month |-> number(SubSeq(str, 6, 7)),
     day |-> number(SubSeq(str, 9, 10)), hour |-> number(SubSeq(str, 12, 13)),
     minute |-> number(SubSeq(str, 15, 16)), second |-> number(SubSeq(str, 18, 19)),
     fraction |-> SubSeq(str, 21, Len(str) - 1)]

\* DateTime::<Utc>::from_str(str) is Ok, for a string of date-time
\* characters: a date, T, a time of day with or without a fraction, and Z,
\* each field within its range.
is_rfc3339(str) ==
    /\ Len(str) = 20 \/ Len(str) > 21
    /\ \A i \in {1, 2, 3, 4, 6, 7, 9, 10, 12, 13, 15, 16, 18, 19} : str[i] \in DecDigits
    /\ str[5] = "-" /\ str[8] = "-" /\ str[11] = "T" /\ str[14] = ":" /\ str[17] = ":"
    /\ str[Len(str)] = "Z"
    /\ Len(str) > 21 => str[20] = "." /\ \A i \in 21..(Len(str) - 1) : str[i] \in DecDigits
    /\ LET f == date_fields(str)
       IN  /\ f.month \in 1..12
           /\ f.day \in 1..days_in_month(f.year, f.month)
           /\ f.hour < 24 /\ f.minute < 60 /\ f.second <= 60

RECURSIVE query_expr(_), or_expr(_), or_many0(_, _), and_expr(_), and_many0(_, _),
          not_expr(_), primary(_), paren_expr(_)

\* let r = parser(input) and the code that follows it: r is computed once.
Let(r, rest(_)) == CHOOSE v \in {rest(x) : x \in {r}} : TRUE

\* p(input)?, then the code that follows it.
Try(r, rest(_)) == Let(r, LAMBDA x : IF x.res = "Ok" THEN rest(x) ELSE x)

tag(input) ==
    Try(take_while1(is_tag_char, input), LAMBDA r : POk(r.rest, Tag(r.val)))

\* alt((t(">="), t("<=")))
comparison(input) ==
    Let(ws_t(op_ge, input), LAMBDA ge : IF ge.res = "Ok" THEN ge ELSE ws_t(op_le, input))

date_expr(input) ==
    Try(ws_t(kw_date, input), LAMBDA field :
    Try(comparison(field.rest), LAMBDA cmp :
    Try(take_while1(is_datetime_char, cmp.rest), LAMBDA date_str :
        IF ~is_rfc3339(date_str.val) THEN PPanic
        ELSE IF cmp.val = op_ge THEN POk(date_str.rest, DateSince(date_fields(date_str.val)))
        ELSE POk(date_str.rest, DateUntil(date_fields(date_str.val))))))

paren_expr(input) ==
    Try(ws_t(<<"(">>, input), LAMBDA open :
    Try(query_expr(open.rest), LAMBDA inner :
    Try(ws_t(<<")">>, inner.rest), LAMBDA close :
        POk(close.rest, inner.val))))

\* alt((date_expr, paren_expr, tag))
primary(input) ==
    Let(date_expr(input), LAMBDA d : IF d.res # "Error" THEN d ELSE
    Let(paren_expr(input), LAMBDA p : IF p.res # "Error" THEN p ELSE
        tag(input)))

\* NOT binds the whole conjunction that follows it.
not_expr_over_and(input) ==
    Let(Try(ws_t(kw_NOT, input), LAMBDA kw : and_expr(kw.rest)), LAMBDA negated :
        IF negated.res = "Ok" THEN POk(negated.rest, Not(negated.val))
        ELSE IF negated.res = "Panic" THEN negated
        ELSE primary(input))

\* opt(preceded(ws(t("NOT")), primary)), then the match on it.
not_expr(input) ==
    Let(Try(ws_t(kw_NOT, input), LAMBDA kw : primary(kw.rest)), LAMBDA negated :
        IF negated.res = "Ok" THEN POk(negated.rest, Not(negated.val))
        ELSE IF negated.res = "Panic" THEN negated
        ELSE primary(input))

\* many0(preceded(ws(t("AND")), not_expr)), folded with and() from acc on.
and_many0(input, acc) ==
    Let(Try(ws_t(kw_AND, input), LAMBDA kw : not_expr(kw.rest)), LAMBDA e :
        IF e.res = "Error" THEN POk(input, acc)
        ELSE IF e.res = "Panic" THEN e
        ELSE IF Len(e.rest) = Len(input) THEN PError(input)
        ELSE and_many0(e.rest, And(acc, e.val)))

and_expr(input) ==
    Try(not_expr(input), LAMBDA init : and_many0(init.rest, init.val))

\* many0(preceded(ws(t("OR")), and_expr)), folded with or() from acc on.
or_many0(input, acc) ==
    Let(Try(ws_t(kw_OR, input), LAMBDA kw : and_expr(kw.rest)), LAMBDA e :
        IF e.res = "Error" THEN POk(input, acc)
        ELSE IF e.res = "Panic" THEN e
        ELSE IF Len(e.rest) = Len(input) THEN PError(input)
        ELSE or_many0(e.rest, Or(acc, e.val)))

or_expr(input) ==
    Try(and_expr(input), LAMBDA init : or_many0(init.rest, init.val))

query_expr(input) == or_expr(input)

ParseErrorDetail(kind, location) == [kind |-> kind, location |-> location]

parse_query(input) ==
    Let(query_expr(input), LAMBDA r :
        IF r.res = "Panic" THEN Panic
        ELSE IF r.res = "Error" THEN Err(ParseErrorDetail(r.kind, r.location))
        ELSE IF multispace0(r.rest) # <<>>
        THEN Err(ParseErrorDetail("UnexpectedToken", r.rest))
        ELSE Ok(r.val))

\* The longest query is made of so many pieces.
MaxPieces == 3

cat == <<"c", "a", "t">>
dog == <<"d", "o", "g">>
emu == <<"e", "m", "u">>
date_2025 == <<"2", "0", "2", "5", "-", "0", "5", "-", "0", "2", "T",
               "0", "1", ":", "1", "8", ":", "4", "9", "Z">>
date_fraction == SubSeq(date_2025, 1, 19) \o <<".", "6", "7", "8", "Z">>
year_only == SubSeq(date_2025, 1, 4)
day_only == SubSeq(date_2025, 1, 10)
month_13 == [date_2025 EXCEPT ![6] = "1", ![7] = "3"]

\* Strings of date-time characters, two of them dates of RFC 3339.
Dates == {date_2025, date_fraction, year_only, day_only, month_13, <<"T">>}

Pieces == {cat, dog, kw_OR, kw_AND, kw_NOT, kw_date, <<"(">>, <<")">>,
           op_ge, date_2025, year_only}

\* The pieces one after the other, sep between two of them.
RECURSIVE concat(_, _)
concat(pieces, sep) ==
    IF Len(pieces) = 1 THEN pieces[1]
    ELSE pieces[1] \o sep \o concat(Tail(pieces), sep)

Operand(negated, name) ==
    IF negated THEN <<kw_NOT, name>> ELSE <<name>>

\* The queries handed to parse_query: pieces in any order, apart or not;
\* three operands under two operators, plain, negated and in parentheses;
\* a date after either comparison.
Queries ==
    {concat(ps, sep) : ps \in UNION {[1..n -> Pieces] : n \in 1..MaxPieces},
                     sep \in {<<>>, <<" ">>}}
    \cup {concat(Operand(n1, cat) \o <<o1>> \o Operand(n2, dog) \o <<o2>> \o Operand(n3, emu),
               <<" ">>) :
            n1 \in BOOLEAN, n2 \in BOOLEAN, n3 \in BOOLEAN,
            o1 \in {kw_OR, kw_AND}, o2 \in {kw_OR, kw_AND}}
    \cup {concat(<<<<"(">>, cat, o1, dog, <<")">>, o2, emu>>, <<" ">>) :
            o1 \in {kw_OR, kw_AND}, o2 \in {kw_OR, kw_AND}}
    \cup {concat(<<cat, o1, <<"(">>, dog, o2, emu, <<")">>>>, <<" ">>) :
            o1 \in {kw_OR, kw_AND}, o2 \in {kw_OR, kw_AND}}
    \cup {concat(<<kw_NOT, <<"(">>, cat, o1, dog, <<")">>>>, <<" ">>) : o1 \in {kw_OR, kw_AND}}
    \cup {concat(<<kw_date, cmp, x>>, sep) :
            cmp \in {op_ge, op_le}, sep \in {<<>>, <<" ">>},
            x \in Dates}

apply_parse_query ==
    /\ fn = "init"
    /\ out' = parse_query(arg)
    /\ fn' = "parse_query"
    /\ UNCHANGED <<arg, sysvars, clientvars, retryvars, queryvars>>

NextParser == apply_parse_query

InitParser ==
    /\ SystemStart({Empty})
    /\ arg \in Queries
    /\ out = NoValue
    /\ fn = "init"

SpecParser == InitParser /\ [][NextParser]_vars

-----------------------------------------------------------------------------
(* Image queries lowered to SQL (query/image.rs, dialect.rs).  The SQL     *)
(* text is the sequence of the pieces it is formatted from, a placeholder  *)
(* being a piece of its own; a parameter is the sequence of its            *)
(* characters.                                                             *)

Dialects == {"sqlite", "postgres"}

\* Dialect::placeholder: ? in SQLite, $idx in PostgreSQL.
placeholder(idx, dialect) == IF dialect = "sqlite" THEN "?" ELSE "$" \o ToString(idx)

exists_tag_query(idx, dialect) ==
    <<"EXISTS (SELECT 1 FROM image_tags WHERE image_tags.image_hash = image_with_metadata.hash AND image_tags.tag_name = ",
      placeholder(idx, dialect), ")">>

exists_date_until_query(idx, dialect) ==
    <<"EXISTS (SELECT 1 FROM image_metadatas WHERE image_metadatas.image_hash = images.hash AND created_at <= ",
      placeholder(idx, dialect), ")">>

exists_date_since_query(idx, dialect) ==
    <<"EXISTS (SELECT 1 FROM image_metadatas WHERE image_metadatas.image_hash = images.hash AND created_at >= ",
      placeholder(idx, dialect), ")">>

\* u32::to_string
RECURSIVE to_string_u32(_)
to_string_u32(n) ==
    IF n < 10 THEN <<HexDigits[n + 1]>>
    ELSE to_string_u32(n \div 10) \o <<HexDigits[(n % 10) + 1]>>

\* {:02}
two_digits(n) == <<HexDigits[(n \div 10) + 1], HexDigits[(n % 10) + 1]>>

\* {:04}
four_digits(n) == two_digits(n \div 100) \o two_digits(n % 100)

\* The fraction of a second as to_rfc3339 writes it: nothing, or a point and
\* three, six or nine digits, the fewest that lose nothing.
fraction_auto_si(digits) ==
    LET nine == SubSeq(digits \o <<"0", "0", "0", "0", "0", "0", "0", "0", "0">>, 1, 9)
        zero(from) == \A i \in from..9 : nine[i] = "0"
    IN  IF zero(1) THEN <<>>
        ELSE IF zero(4) THEN <<".">> \o SubSeq(nine, 1, 3)
        ELSE IF zero(7) THEN <<".">> \o SubSeq(nine, 1, 6)
        ELSE <<".">> \o nine

\* DateTime::<Utc>::to_rfc3339
to_rfc3339(dt) ==
    four_digits(dt.year) \o <<"-">> \o two_digits(dt.month) \o <<"-">> \o two_digits(dt.day)
    \o <<"T">> \o two_digits(dt.hour) \o <<":">> \o two_digits(dt.minute)
    \o <<":">> \o two_digits(dt.second) \o fraction_auto_si(dt.fraction)
    \o <<"+", "0", "0", ":", "0", "0">>

RECURSIVE build_sql(_, _, _)

\* The right operand is lowered before the left one.
build_sql_rhs_first(self, params, dialect) ==
    IF self.node \in {"And", "Or"}
    THEN Let(build_sql(self.rhs, params, dialect), LAMBDA rhs :
         Let(build_sql(self.lhs, rhs.params, dialect), LAMBDA lhs :
             [sql |-> <<"(">> \o lhs.sql \o <<IF self.node = "And" THEN " AND " ELSE " OR ">>
                      \o rhs.sql \o <<")">>,
              params |-> lhs.params]))
    ELSE IF self.node = "Not"
    THEN Let(build_sql(self.expr, params, dialect), LAMBDA expr :
             [sql |-> <<"NOT ">> \o expr.sql, params |-> expr.params])
    ELSE Let(Append(params, IF self.node = "Tag" THEN self.tag ELSE to_rfc3339(self.dt)),
             LAMBDA pushed :
             [sql |-> IF self.node = "Tag" THEN exists_tag_query(Len(pushed), dialect)
                      ELSE IF self.node = "DateUntil"
                      THEN exists_date_until_query(Len(pushed), dialect)
                      ELSE exists_date_since_query(Len(pushed), dialect),
              params |-> pushed])

RECURSIVE build_sql_bare(_, _, _)

\* AND and OR are emitted without the parentheses around them.
build_sql_bare(self, params, dialect) ==
    IF self.node \in {"And", "Or"}
    THEN Let(build_sql_bare(self.lhs, params, dialect), LAMBDA lhs :
         Let(build_sql_bare(self.rhs, lhs.params, dialect), LAMBDA rhs :
             [sql |-> lhs.sql \o <<IF self.node = "And" THEN " AND " ELSE " OR ">> \o rhs.sql,
              params |-> rhs.params]))
    ELSE IF self.node = "Not"
    THEN Let(build_sql_bare(self.expr, params, dialect), LAMBDA expr :
             [sql |-> <<"NOT ">> \o expr.sql, params |-> expr.params])
    ELSE IF self.node = "Tag"
    THEN Let(Append(params, self.tag), LAMBDA pushed :
             [sql |-> exists_tag_query(Len(pushed), dialect), params |-> pushed])
    ELSE IF self.node = "DateUntil"
    THEN Let(Append(params, to_rfc3339(self.dt)), LAMBDA pushed :
             [sql |-> exists_date_until_query(Len(pushed), dialect), params |-> pushed])
    ELSE Let(Append(params, to_rfc3339(self.dt)), LAMBDA pushed :
             [sql |-> exists_date_since_query(Len(pushed), dialect), params |-> pushed])

\* ImageQueryExpr::build_sql: the SQL of the expression, and params with the
\* values of its leaves pushed as they are met.
build_sql(self, params, dialect) ==
    IF self.node = "Tag"
    THEN Let(Append(params, self.tag), LAMBDA pushed :
             [sql |-> exists_tag_query(Len(pushed), dialect), params |-> pushed])
    ELSE IF self.node = "And"
    THEN Let(build_sql(self.lhs, params, dialect), LAMBDA lhs :
         Let(build_sql(self.rhs, lhs.params, dialect), LAMBDA rhs :
             [sql |-> <<"(">> \o lhs.sql \o <<" AND ">> \o rhs.sql \o <<")">>,
              params |-> rhs.params]))
    ELSE IF self.node = "Or"
    THEN Let(build_sql(self.lhs, params, dialect), LAMBDA lhs :
         Let(build_sql(self.rhs, lhs.params, dialect), LAMBDA rhs :
             [sql |-> <<"(">> \o lhs.sql \o <<" OR ">> \o rhs.sql \o <<")">>,
              params |-> rhs.params]))
    ELSE IF self.node = "Not"
    THEN Let(build_sql(self.expr, params, dialect), LAMBDA expr :
             [sql |-> <<"NOT ">> \o expr.sql, params |-> expr.params])
    ELSE IF self.node = "DateUntil"
    THEN Let(Append(params, to_rfc3339(self.dt)), LAMBDA pushed :
             [sql |-> exists_date_until_query(Len(pushed), dialect), params |-> pushed])
    ELSE Let(Append(params, to_rfc3339(self.dt)), LAMBDA pushed :
             [sql |-> exists_date_since_query(Len(pushed), dialect), params |-> pushed])

\* ImageQueryExpr::to_sql
ImageQueryExpr_to_sql(self, dialect) == build_sql(self, <<>>, dialect)

All == [kind |-> "All"]
Where(expr) == [kind |-> "Where", expr |-> expr]

\* ImageQueryKind::to_sql
ImageQueryKind_to_sql(self, dialect) ==
    IF self.kind = "All" THEN [sql |-> <<>>, params |-> <<>>]
    ELSE Let(ImageQueryExpr_to_sql(self.expr, dialect), LAMBDA lowered :
             [sql |-> <<"WHERE ">> \o lowered.sql, params |-> lowered.params])

OrderBy == {"CreatedAtAsc", "CreatedAtDesc", "FileSizeAsc", "FileSizeDesc", "Random"}

\* OrderBy::to_sql
OrderBy_to_sql(self) ==
    CASE self = "CreatedAtAsc" -> " ORDER BY created_at ASC"
      [] self = "CreatedAtDesc" -> " ORDER BY created_at DESC"
      [] self = "FileSizeAsc" -> " ORDER BY file_size ASC"
      [] self = "FileSizeDesc" -> " ORDER BY file_size DESC"
      [] self = "Random" -> " ORDER BY RANDOM()"

Some(v) == [kind |-> "Some", val |-> v]

\* ImageQuery::new
ImageQuery_new(expr) == [expr |-> expr, limit |-> None, offset |-> None, order |-> None]

\* ImageQuery::to_sql
to_sql(self, dialect) ==
    Let(ImageQueryKind_to_sql(self.expr, dialect), LAMBDA filter :
    Let([sql |-> filter.sql \o (IF IsSome(self.order) THEN <<OrderBy_to_sql(self.order.val)>>
                                ELSE <<>>),
         params |-> filter.params], LAMBDA ordered :
    Let(IF IsSome(self.limit)
        THEN Let(Append(ordered.params, to_string_u32(self.limit.val)), LAMBDA pushed :
                 [sql |-> ordered.sql \o <<" LIMIT CAST(", placeholder(Len(pushed), dialect),
                                           " AS INTEGER)">>,
                  params |-> pushed])
        ELSE ordered, LAMBDA limited :
        IF IsSome(self.offset)
        THEN Let(Append(limited.params, to_string_u32(self.offset.val)), LAMBDA pushed :
                 [sql |-> limited.sql \o <<" OFFSET CAST(", placeholder(Len(pushed), dialect),
                                           " AS INTEGER)">>,
                  params |-> pushed])
        ELSE limited)))

\* The deepest expression of the sampled queries has so many operators
\* above a leaf.
MaxDepth == 1

cute == <<"c", "u", "t", "e">>

LeafExprs == {Tag(cat), Tag(dog), DateUntil(date_fields(date_fraction))}

RECURSIVE ExprsOfDepth(_)
ExprsOfDepth(d) ==
    IF d = 0 THEN LeafExprs
    ELSE LET below == ExprsOfDepth(d - 1)
         IN  below \cup {Not(e) : e \in below}
                   \cup {And(e, f) : e \in below, f \in below}
                   \cup {Or(e, f) : e \in below, f \in below}

\* The expression of test_build_query, and one with a date on either side.
BuiltExprs ==
    {And(Or(And(Tag(cat), Tag(cute)), Not(Tag(dog))), DateUntil(date_fields(date_2025))),
     Or(DateSince(date_fields(date_2025)), And(Tag(cat), DateUntil(date_fields(date_fraction))))}

\* Expressions with a negated conjunction or disjunction.
NegatedExprs ==
    {Not(And(Tag(cat), Tag(dog))),
     Or(Not(Or(Tag(cat), Tag(dog))), Tag(cute)),
     And(Not(Not(And(Tag(cat), Not(Tag(dog))))), Or(Tag(cute), Tag(cat)))}

ImageQueries ==
    {[ImageQuery_new(kind) EXCEPT !.limit = limit, !.offset = offset, !.order = order] :
        kind \in {All} \cup {Where(e) : e \in ExprsOfDepth(MaxDepth) \cup BuiltExprs
                                                \cup NegatedExprs},
        limit \in {None, Some(10)},
        offset \in {None, Some(20)},
        order \in {None} \cup {Some(o) : o \in OrderBy}}

apply_to_sql ==
    /\ fn = "init"
    /\ out' = to_sql(arg.query, arg.dialect)
    /\ fn' = "to_sql"
    /\ UNCHANGED <<arg, sysvars, clientvars, retryvars, queryvars>>

NextSql == apply_to_sql

InitSql ==
    /\ SystemStart({Empty})
    /\ arg \in {[query |-> q, dialect |-> d] : q \in ImageQueries, d \in Dialects}
    /\ out = NoValue
    /\ fn = "init"

SpecSql == InitSql /\ [][NextSql]_vars

-----------------------------------------------------------------------------
(* The migration (dialect/sqlite.rs, dialect/postgres.rs).  A database is  *)
(* the set of the objects it holds (the schema, tables, the view) and the  *)
(* rows of its tables.                                                     *)

\* A migration is run so many times.
MaxRuns == 3

CreateSchema == [create |-> "schema", name |-> "schema", refs |-> {}]
CreateTable(name, refs) == [create |-> "table", name |-> name, refs |-> refs]
CreateView == [create |-> "view", name |-> "image_with_metadata",
               refs |-> {"images", "image_metadatas"}]

\* SqliteDialect::migration
sqlite_migration ==
    <<CreateTable("images", {}),
      CreateTable("image_metadatas", {"images"}),
      CreateTable("tags", {}),
      CreateTable("image_tags", {"images", "tags"}),
      CreateView>>

\* PostgresDialect::migration: the statements pushed to stmts.
postgres_migration(schema) ==
    (IF IsSome(schema) THEN <<CreateSchema>> ELSE <<>>)
    \o <<CreateTable("images", {}),
         CreateTable("image_metadatas", {"images"}),
         CreateTable("tags", {}),
         CreateTable("image_tags", {"images", "tags"}),
         CreateTable("tag_counts", {"tags"}),
         CreateView>>

migration(config) ==
    IF config.dialect = "sqlite" THEN sqlite_migration ELSE postgres_migration(config.schema)

\* CREATE without IF NOT EXISTS: an object that exists is an error.
execute_create_strict(db, stmt) ==
    IF stmt.name \in db.objects \/ ~(stmt.refs \subseteq db.objects)
    THEN Err([kind |-> "Database"])
    ELSE Ok([db EXCEPT !.objects = @ \cup {stmt.name}])

\* CREATE SCHEMA / TABLE / VIEW IF NOT EXISTS, and the DO block that creates
\* the view unless pg_views holds it: an object that exists is left as it
\* is, a new table has no rows, a foreign key or a view needs the tables it
\* names.
execute_create(db, stmt) ==
    IF stmt.name \in db.objects THEN Ok(db)
    ELSE IF ~(stmt.refs \subseteq db.objects) THEN Err([kind |-> "Database"])
    ELSE Ok([db EXCEPT !.objects = @ \cup {stmt.name}])

\* The databases a migration meets: one that a migration stopped at any
\* statement has left, new or with rows in its tables.
Databases(config) ==
    LET stmts == migration(config)
        made(n) == {stmts[i].name : i \in 1..n}
        tables(n) == {stmts[i].name : i \in {j \in 1..n : stmts[j].create = "table"}}
    IN  UNION {{[objects |-> made(n), rows |-> rows] : rows \in SUBSET tables(n)} :
               n \in 0..Len(stmts)}

Configs ==
    {[dialect |-> "sqlite", schema |-> None],
     [dialect |-> "postgres", schema |-> None],
     [dialect |-> "postgres", schema |-> Some("buru")]}

\* db.migrate() is called.
migrate_begin ==
    /\ fn \in {"init", "migrated"}
    /\ fn = "migrated" => out.runs < MaxRuns
    /\ out' = IF fn = "init"
              THEN [db |-> arg.db, first |-> None, runs |-> 0, next |-> 1, res |-> Ok(Unit)]
              ELSE [out EXCEPT !.next = 1]
    /\ fn' = "migrate"
    /\ UNCHANGED <<arg, sysvars, clientvars, retryvars, queryvars>>

\* for stmt in stmts { sqlx::query(&stmt).execute(pool).await?; } Ok(())
migrate_execute ==
    /\ fn = "migrate"
    /\ LET stmts == migration(arg.config)
           done == execute_create(out.db, stmts[out.next])
       IN  IF ~done.ok
           THEN /\ out' = [out EXCEPT !.res = done]
                /\ fn' = "failed"
           ELSE IF out.next < Len(stmts)
           THEN /\ out' = [out EXCEPT !.db = done.val, !.next = @ + 1]
                /\ fn' = "migrate"
           ELSE /\ out' = [out EXCEPT !.db = done.val, !.res = Ok(Unit), !.runs = @ + 1,
                                      !.first = IF IsNone(@) THEN Some(done.val) ELSE @]
                /\ fn' = "migrated"
    /\ UNCHANGED <<arg, sysvars, clientvars, retryvars, queryvars>>

NextMigrate == migrate_begin \/ migrate_execute

InitMigrate ==
    /\ SystemStart({Empty})
    /\ arg \in UNION {{[config |-> c, db |-> db] : db \in Databases(c)} : c \in Configs}
    /\ out = NoValue
    /\ fn = "init"

SpecMigrate == InitMigrate /\ [][NextMigrate]_vars

-----------------------------------------------------------------------------
(* One caller of the media store over a shard directory that holds any     *)
(* files of one fingerprint.                                               *)

ShardFiles ==
    {join(derive_abs_dir(HashA), derive_filename(HashA, e)) : e \in {EXT_png, EXT_webp, EXT_mp4}}

Shards == {[Empty EXCEPT !.files = fs] : fs \in SUBSET ShardFiles}

start_index_file(p) ==
    \E h \in PixelHashes :
        Begin(p, [Idle EXCEPT !.name = "index_file", !.hash = h],
              <<"if_find", "done">>, [LocInit EXCEPT !.hash = h])

\* Storage::index_file
index_file_find(p) ==
    /\ pc[p] = "if_find"
    /\ Return(p, Ok(index_file(loc[p].hash)), loc[p])
    /\ UNCHANGED <<sysvars, faults>>

ShardStep(p) ==
    \/ start_ensure_deleted(p)
    \/ start_index_file(p)
    \/ ensure_deleted_find(p)
    \/ ensure_deleted_remove_image(p)
    \/ ensure_deleted_remove_video(p)
    \/ ensure_deleted_remove_thumb(p)
    \/ index_file_find(p)

NextShard == \E p \in Clients : ShardStep(p)

InitShard == Start(Shards)

SpecShard == InitShard /\ [][NextShard]_vars

-----------------------------------------------------------------------------
(* The condition of a WHERE clause as the database reads it.  A text is    *)
(* the sequence of its pieces; NOT binds tighter than AND, AND tighter     *)
(* than OR, and parentheses group.                                         *)

BindMarks == {placeholder(k, d) : k \in 1..8, d \in Dialects}

\* The number of the bind parameter at place i of a text.
bind_number(sql, i) == Cardinality({j \in 1..i : sql[j] \in BindMarks})

\* The place of the k-th bind parameter of a text.
bind_place(sql, k) == CHOOSE i \in DOMAIN sql : sql[i] \in BindMarks /\ bind_number(sql, i) = k

\* A condition with a sub-select ends with its own closing parenthesis.
SubSelects ==
    {exists_tag_query(1, "sqlite")[1], exists_date_until_query(1, "sqlite")[1],
     exists_date_since_query(1, "sqlite")[1]}

RECURSIVE sql_or(_, _, _)
RECURSIVE sql_or_rest(_, _, _)
RECURSIVE sql_and(_, _, _)
RECURSIVE sql_and_rest(_, _, _)
RECURSIVE sql_not(_, _, _)

\* A parenthesised condition, or a test against one bind parameter whose
\* outcome truth gives by the number of the parameter.
sql_primary(sql, i, truth) ==
    IF sql[i] = "("
    THEN Let(sql_or(sql, i + 1, truth), LAMBDA inner :
             [val |-> inner.val, next |-> inner.next + 1])
    ELSE [val |-> truth[bind_number(sql, i + 1)],
          next |-> IF sql[i] \in SubSelects THEN i + 3 ELSE i + 2]

sql_not(sql, i, truth) ==
    IF sql[i] = "NOT "
    THEN Let(sql_not(sql, i + 1, truth), LAMBDA negated :
             [val |-> ~negated.val, next |-> negated.next])
    ELSE sql_primary(sql, i, truth)

sql_and_rest(sql, lhs, truth) ==
    IF lhs.next <= Len(sql) /\ sql[lhs.next] = " AND "
    THEN Let(sql_not(sql, lhs.next + 1, truth), LAMBDA rhs :
             sql_and_rest(sql, [val |-> lhs.val /\ rhs.val, next |-> rhs.next], truth))
    ELSE lhs

sql_and(sql, i, truth) == sql_and_rest(sql, sql_not(sql, i, truth), truth)

sql_or_rest(sql, lhs, truth) ==
    IF lhs.next <= Len(sql) /\ sql[lhs.next] = " OR "
    THEN Let(sql_and(sql, lhs.next + 1, truth), LAMBDA rhs :
             sql_or_rest(sql, [val |-> lhs.val \/ rhs.val, next |-> rhs.next], truth))
    ELSE lhs

sql_or(sql, i, truth) == sql_or_rest(sql, sql_and(sql, i, truth), truth)

-----------------------------------------------------------------------------
(* Tag queries lowered to SQL (query/tag.rs) and run on the tags table     *)
(* (database.rs, query_tags).  A tag name is the sequence of its           *)
(* characters.                                                             *)

\* The longest tag name and the longest search string.
MaxTagLen == 2

Exact(name) == [node |-> "Exact", name |-> name]
Prefix(prefix) == [node |-> "Prefix", name |-> prefix]
Contains(substr) == [node |-> "Contains", name |-> substr]

RECURSIVE TagQueryExpr_build_sql(_, _, _)

\* TagQueryExpr::build_sql
TagQueryExpr_build_sql(self, params, dialect) ==
    IF self.node = "Exact"
    THEN Let(Append(params, self.name), LAMBDA pushed :
             [sql |-> <<"name = ", placeholder(Len(pushed), dialect)>>, params |-> pushed])
    ELSE IF self.node = "Prefix"
    THEN Let(Append(params, self.name \o <<"%">>), LAMBDA pushed :
             [sql |-> <<"name LIKE ", placeholder(Len(pushed), dialect)>>, params |-> pushed])
    ELSE IF self.node = "Contains"
    THEN Let(Append(params, <<"%">> \o self.name \o <<"%">>), LAMBDA pushed :
             [sql |-> <<"name LIKE ", placeholder(Len(pushed), dialect)>>, params |-> pushed])
    ELSE IF self.node = "And"
    THEN Let(TagQueryExpr_build_sql(self.lhs, params, dialect), LAMBDA lhs :
         Let(TagQueryExpr_build_sql(self.rhs, lhs.params, dialect), LAMBDA rhs :
             [sql |-> <<"(">> \o lhs.sql \o <<" AND ">> \o rhs.sql \o <<")">>,
              params |-> rhs.params]))
    ELSE IF self.node = "Or"
    THEN Let(TagQueryExpr_build_sql(self.lhs, params, dialect), LAMBDA lhs :
         Let(TagQueryExpr_build_sql(self.rhs, lhs.params, dialect), LAMBDA rhs :
             [sql |-> <<"(">> \o lhs.sql \o <<" OR ">> \o rhs.sql \o <<")">>,
              params |-> rhs.params]))
    ELSE Let(TagQueryExpr_build_sql(self.expr, params, dialect), LAMBDA expr :
             [sql |-> <<"NOT ", "(">> \o expr.sql \o <<")">>, params |-> expr.params])

\* TagQueryExpr::to_sql
TagQueryExpr_to_sql(self, dialect) == TagQueryExpr_build_sql(self, <<>>, dialect)

\* TagQueryKind::to_sql
TagQueryKind_to_sql(self, dialect) ==
    IF self.kind = "All" THEN [sql |-> <<>>, params |-> <<>>]
    ELSE Let(TagQueryExpr_to_sql(self.expr, dialect), LAMBDA lowered :
             [sql |-> <<"WHERE ">> \o lowered.sql, params |-> lowered.params])

\* The ASCII letters of the samples, folded to lower case.
to_ascii_lower(c) == IF c = "A" THEN "a" ELSE IF c = "B" THEN "b" ELSE c

\* The characters a LIKE pattern holds to be the same: SQLite folds the case
\* of ASCII letters, PostgreSQL does not.
like_same(c, d, dialect) ==
    IF dialect = "sqlite" THEN to_ascii_lower(c) = to_ascii_lower(d) ELSE c = d

RECURSIVE like(_, _, _)

\* text LIKE pattern: % stands for any characters, _ for any one character.
like(pattern, text, dialect) ==
    IF pattern = <<>> THEN text = <<>>
    ELSE IF Head(pattern) = "%"
    THEN like(Tail(pattern), text, dialect)
         \/ (text # <<>> /\ like(pattern, Tail(text), dialect))
    ELSE IF text = <<>> THEN FALSE
    ELSE IF Head(pattern) = "_" THEN like(Tail(pattern), Tail(text), dialect)
    ELSE like_same(Head(pattern), Head(text), dialect)
         /\ like(Tail(pattern), Tail(text), dialect)

\* The outcome of each test of a tag statement on the row of tag name: a
\* comparison with the bound value, or LIKE with the bound pattern.
tag_tests(sql, params, name, dialect) ==
    [k \in DOMAIN params |->
        IF sql[bind_place(sql, k) - 1] = "name = " THEN name = params[k]
        ELSE like(params[k], name, dialect)]

\* Database::query_tags on a table that holds the one tag name: the rows the
\* statement selects.
query_tags(query, name, dialect) ==
    Let(TagQueryKind_to_sql(query, dialect), LAMBDA lowered :
        IF lowered.sql = <<>> THEN {name}
        ELSE IF sql_or(lowered.sql, 2, tag_tests(lowered.sql, lowered.params, name, dialect)).val
        THEN {name}
        ELSE {})

TagChars == {"a", "A", "_"}

TagStrings == UNION {[1..n -> TagChars] : n \in 0..MaxTagLen}

TagExprs ==
    {Exact(v) : v \in TagStrings} \cup {Prefix(v) : v \in TagStrings}
    \cup {Contains(v) : v \in TagStrings}
    \cup {And(Prefix(<<"a">>), Not(Contains(<<"A">>))),
          Or(Exact(<<"a">>), And(Prefix(<<"A">>), Contains(<<"_">>)))}

apply_tag_to_sql ==
    /\ fn = "init"
    /\ out' = TagQueryKind_to_sql(arg.query, arg.dialect)
    /\ fn' = "to_sql"
    /\ UNCHANGED <<arg, sysvars, clientvars, retryvars, queryvars>>

apply_query_tags ==
    /\ fn = "to_sql"
    /\ out' = [sql |-> out.sql, params |-> out.params,
               rows |-> query_tags(arg.query, arg.name, arg.dialect)]
    /\ fn' = "query_tags"
    /\ UNCHANGED <<arg, sysvars, clientvars, retryvars, queryvars>>

NextTag == apply_tag_to_sql \/ apply_query_tags

InitTag ==
    /\ SystemStart({Empty})
    /\ arg \in [query : {All} \cup {Where(e) : e \in TagExprs},
                name : TagStrings \ {<<>>},
                dialect : Dialects]
    /\ out = NoValue
    /\ fn = "init"

SpecTag == InitTag /\ [][NextTag]_vars

-----------------------------------------------------------------------------
(* Counting images (database.rs, count_image).  The view is the set of     *)
(* its rows; a row is an image and the tags it carries.                    *)

\* Dialect::count_image_statement
count_image_statement(condition) ==
    <<"SELECT COUNT(hash) FROM image_with_metadata ">> \o condition

\* The outcome of each test of an image condition on a row: the EXISTS over
\* image_tags holds when the row carries the bound tag.
image_tests(sql, params, row) ==
    [k \in DOMAIN params |->
        IF sql[bind_place(sql, k) - 1] = exists_tag_query(1, "sqlite")[1]
        THEN params[k] \in row.tags
        ELSE FALSE]

\* The rows of the view a statement's WHERE clause selects; every row when
\* it has none.
where_rows(stmt, params, view) ==
    IF Len(stmt) >= 2 /\ stmt[2] = "WHERE "
    THEN {row \in view : sql_or(stmt, 3, image_tests(stmt, params, row)).val}
    ELSE view

\* The value bound to the clause that piece opens; None without the clause.
clause_value(stmt, params, piece) ==
    IF \E i \in DOMAIN stmt : stmt[i] = piece
    THEN Some(number(params[bind_number(stmt, (CHOOSE i \in DOMAIN stmt : stmt[i] = piece) + 1)]))
    ELSE None

\* Database::count_image: the statement counts the rows the condition
\* selects into one row, which ORDER BY, LIMIT and OFFSET then apply to, and
\* fetch_one takes the first row of what is left.  PostgreSQL rejects an
\* ORDER BY on a column beside an aggregate; SQLite rejects OFFSET without
\* LIMIT.
count_image(query, view, dialect) ==
    Let(to_sql(query, dialect), LAMBDA lowered :
    Let(count_image_statement(lowered.sql), LAMBDA stmt :
    Let([limit |-> clause_value(stmt, lowered.params, " LIMIT CAST("),
         offset |-> clause_value(stmt, lowered.params, " OFFSET CAST("),
         by_column |-> \E i \in DOMAIN stmt :
                          stmt[i] \in {OrderBy_to_sql(o) : o \in OrderBy \ {"Random"}}],
        LAMBDA clauses :
        IF dialect = "postgres" /\ clauses.by_column THEN Err(QueryFailed("Database"))
        ELSE IF dialect = "sqlite" /\ IsSome(clauses.offset) /\ IsNone(clauses.limit)
        THEN Err(QueryFailed("Database"))
        ELSE IF (IsSome(clauses.offset) /\ clauses.offset.val >= 1)
                \/ (IsSome(clauses.limit) /\ clauses.limit.val = 0)
        THEN Err(QueryFailed("RowNotFound"))
        ELSE Ok(Cardinality(where_rows(stmt, lowered.params, view))))))

\* The images of test_count_image.
CountedRows ==
    {[hash |-> "329435e5e66be809", tags |-> {cat}],
     [hash |-> "229435e5e66be809", tags |-> {dog}],
     [hash |-> "129435e5e66be809", tags |-> {cat, dog}]}

CountedFilters ==
    {All, Where(Tag(cat)), Where(Tag(dog)), Where(And(Tag(cat), Tag(dog))),
     Where(Not(Tag(cat))), Where(Or(Tag(emu), And(Not(Tag(dog)), Tag(cat))))}

CountedQueries ==
    {[ImageQuery_new(kind) EXCEPT !.limit = limit, !.offset = offset, !.order = order] :
        kind \in CountedFilters,
        limit \in {None, Some(0), Some(10)},
        offset \in {None, Some(0), Some(20)},
        order \in {None} \cup {Some(o) : o \in OrderBy}}

apply_count_image ==
    /\ fn = "init"
    /\ out' = count_image(arg.query, arg.view, arg.dialect)
    /\ fn' = "count_image"
    /\ UNCHANGED <<arg, sysvars, clientvars, retryvars, queryvars>>

NextCount == apply_count_image

InitCount ==
    /\ SystemStart({Empty})
    /\ arg \in [query : CountedQueries, view : SUBSET CountedRows, dialect : Dialects]
    /\ out = NoValue
    /\ fn = "init"

SpecCount == InitCount /\ [][NextCount]_vars

-----------------------------------------------------------------------------
(* Concurrent callers of attach_tags and remove_image (app.rs).             *)

AttachStep(p) ==
    \/ start_attach_tags(p)
    \/ start_remove_image(p)
    \/ attach_tags_index_file(p)
    \/ attach_tags_get_tags(p)
    \/ ensure_image_exists(p)
    \/ ensure_image_insert(p)
    \/ ensure_tags_insert(p)
    \/ ensure_image_has_tags_insert(p)
    \/ ensure_tags_removed_delete(p)
    \/ ensure_deleted_find(p)
    \/ ensure_deleted_remove_image(p)
    \/ ensure_deleted_remove_video(p)
    \/ ensure_deleted_remove_thumb(p)
    \/ ensure_image_removed_delete(p)

NextAttach == \E p \in Procs : AttachStep(p)

InitAttach == Start({Archived, Stored})

SpecAttach == InitAttach /\ [][NextAttach]_vars

-----------------------------------------------------------------------------
(* Pages of the listings (web/image.rs, web/post.rs, web/tag.rs).  A u32   *)
(* is the sequence of its four bytes, the least significant first, so that *)
(* every value of the type and every product of two of them is at hand.    *)

u32(n) == [i \in 1..4 |-> (n \div (256 ^ (i - 1))) % 256]

u32_MAX == <<255, 255, 255, 255>>

\* The sum of the products of the bytes of a and b that weigh 256^(k-1).
column(a, b, k) ==
    LET term(i) == IF k + 1 - i \in 1..4 THEN a[i] * b[k + 1 - i] ELSE 0
    IN  term(1) + term(2) + term(3) + term(4)

RECURSIVE widening_digits(_, _, _, _)
widening_digits(a, b, k, carry) ==
    IF k > 8 THEN <<>>
    ELSE <<(column(a, b, k) + carry) % 256>>
         \o widening_digits(a, b, k + 1, (column(a, b, k) + carry) \div 256)

\* The product of two u32 in full: eight bytes.
widening_mul(a, b) == widening_digits(a, b, 1, 0)

\* u32::wrapping_mul
wrapping_mul(a, b) == SubSeq(widening_mul(a, b), 1, 4)

\* u32::wrapping_sub(1): the borrow runs through the low bytes that are zero.
wrapping_sub_one(a) ==
    [i \in 1..4 |->
        IF \A j \in 1..(i - 1) : a[j] = 0
        THEN IF a[i] = 0 THEN 255 ELSE a[i] - 1
        ELSE a[i]]

\* u32::saturating_sub(1)
saturating_sub_one(a) == IF a = u32(0) THEN u32(0) ELSE wrapping_sub_one(a)

\* a * b: on overflow a panic in a build with overflow checks, the wrapped
\* product in a build without.
mul(a, b) ==
    IF SubSeq(widening_mul(a, b), 5, 8) # u32(0)
    THEN {Panic, Ok(wrapping_mul(a, b))}
    ELSE {Ok(wrapping_mul(a, b))}

\* a - 1: on underflow a panic in a build with overflow checks, the wrapped
\* difference in a build without.
sub_one(a) ==
    IF a = u32(0) THEN {Panic, Ok(wrapping_sub_one(a))} ELSE {Ok(wrapping_sub_one(a))}

\* Option::unwrap_or
unwrap_or(self, default) == IF IsSome(self) THEN self.val ELSE default

\* What a handler makes of what the arithmetic gave.
paged(limit, offset) ==
    IF offset.ok THEN Ok([limit |-> Some(limit), offset |-> Some(offset.val)]) ELSE Panic

\* From<ImageQueryParam> for ImageQuery: limit and offset.
image_query_from(page, limit) ==
    {paged(unwrap_or(limit, u32(20)), offset) :
        offset \in mul(saturating_sub_one(unwrap_or(page, u32(1))), unwrap_or(limit, u32(20)))}

\* (params.page.unwrap_or(1) - 1) * params.limit.unwrap_or(20)
page_offset(page, limit) ==
    UNION {IF index.ok THEN mul(index.val, unwrap_or(limit, u32(20))) ELSE {Panic} :
              index \in sub_one(unwrap_or(page, u32(1)))}

\* get_posts: with_limit and with_offset.
get_posts(page, limit) ==
    {paged(unwrap_or(limit, u32(20)), offset) : offset \in page_offset(page, limit)}

\* get_tags: with_limit and with_offset.
get_tags(page, limit) ==
    {paged(unwrap_or(limit, u32(20)), offset) : offset \in page_offset(page, limit)}

\* Values of page and limit: small ones, the two about 2^32 / 20, 2^16, 2^31
\* and the largest.
U32Samples ==
    {u32(0), u32(1), u32(2), u32(20), u32(65536), <<205, 204, 204, 12>>,
     <<206, 204, 204, 12>>, <<0, 0, 0, 128>>, u32_MAX}

apply_image_query_from ==
    /\ fn = "init"
    /\ arg.listing = "images"
    /\ out' \in image_query_from(arg.page, arg.limit)
    /\ fn' = "images"
    /\ UNCHANGED <<arg, sysvars, clientvars, retryvars, queryvars>>

apply_get_posts ==
    /\ fn = "init"
    /\ arg.listing = "posts"
    /\ out' \in get_posts(arg.page, arg.limit)
    /\ fn' = "posts"
    /\ UNCHANGED <<arg, sysvars, clientvars, retryvars, queryvars>>

apply_get_tags ==
    /\ fn = "init"
    /\ arg.listing = "tags"
    /\ out' \in get_tags(arg.page, arg.limit)
    /\ fn' = "tags"
    /\ UNCHANGED <<arg, sysvars, clientvars, retryvars, queryvars>>

NextPage == apply_image_query_from \/ apply_get_posts \/ apply_get_tags

InitPage ==
    /\ SystemStart({Empty})
    /\ arg \in [listing : {"images", "posts", "tags"},
                page : {None} \cup {Some(n) : n \in U32Samples},
                limit : {None} \cup {Some(n) : n \in U32Samples}]
    /\ out = NoValue
    /\ fn = "init"

SpecPage == InitPage /\ [][NextPage]_vars

-----------------------------------------------------------------------------
(* Properties.                                                             *)

\* Operation name of client p has ended.
Done(p, name) == pc[p] = "done" /\ op[p].name = name

\* C1: when an archive fails at a step after create_file and get_metadata
\* succeeded, remove_image has run before execute returns: the fingerprint
\* has no file on disk and no image row, and the error returned is the error
\* of the step that failed.
C1_FailedArchiveIsCompensated ==
    \A p \in Procs :
        (Done(p, "archive") /\ ~ret[p].ok /\ loc[p].stage # "start")
        => /\ glob(files, loc[p].hash) = {}
           /\ loc[p].hash \notin images
           /\ ret[p].err = loc[p].step_err

\* C4: of two create_file calls that overlap on a fingerprint the store did
\* not hold, exactly one returns Ok and the other HashCollision.
C4_ExactlyOneCreateSucceeds ==
    LET h == loc[1].pixel_hash
    IN  ( /\ \A p \in Procs : Done(p, "create_file") /\ ~loc[p].faulted
          /\ h # <<>>
          /\ \A p \in Procs : loc[p].pixel_hash = h /\ glob(pre[p].files, h) = {} )
        => \E p, q \in Procs :
              /\ p # q
              /\ ret[p].ok
              /\ ~ret[q].ok
              /\ ret[q].err.kind = "HashCollision"

\* C5: in every reachable state of the store the files whose stem is one
\* fingerprint are at most one asset: no file, one file, or one video file
\* and its .png thumbnail.
C5_AtMostOneAsset ==
    \A h \in PixelHashes :
        LET g == glob(files, h)
        IN  \/ Cardinality(g) <= 1
            \/ /\ Cardinality(g) = 2
               /\ \E v, t \in g : extension(t) = EXT_png /\ extension(v) = EXT_mp4

\* The fingerprint of the bytes an archive command carries.
FingerprintOf(bytes) == compute_pixel_hash(Media_new(bytes).val.content)

\* C2: when create_file reports a HashCollision, what execute does depends
\* on the answer of image_exists alone.  With no image row it goes on with
\* the asset that is on disk, writing no file, and it can succeed; with an
\* image row it ends with that very HashCollision.  Any other error of
\* create_file is returned as it is.
C2_CollisionOutcome ==
    \A p \in Procs :
        op[p].name = "archive" =>
            LET l == loc[p]
            IN  /\ l.exists_ans # NoValue =>
                      /\ l.collided /\ l.create_err.kind = "HashCollision"
                      /\ l.hash = l.create_err.hash
                      /\ (l.exists_ans = "true") <=> (l.hash \in pre[p].images)
                /\ l.exists_ans = "true" =>
                      /\ pc[p] = "done"
                      /\ ret[p] = Err(l.create_err)
                /\ l.exists_ans = "false" =>
                      /\ l.create_err.path \in pre[p].files
                      /\ l.stage \in {"start", "catalog", "found"} => files = pre[p].files
                      /\ (pc[p] = "a_meta" /\ l.stage = "start") => ret[p] = Ok(l.hash)
                      /\ (pc[p] = "done" /\ ~ret[p].ok) => ret[p].err # l.create_err
                /\ ( /\ pc[p] = "done"
                     /\ IsSome(l.create_err)
                     /\ l.create_err.kind # "HashCollision" ) => ret[p] = Err(l.create_err)

\* C2 witness: an archive that met a HashCollision, found no image row,
\* adopted the asset on disk and returned Ok.
C2_AdoptedAndSucceeded ==
    \E p \in Procs :
        /\ Done(p, "archive") /\ ret[p].ok
        /\ loc[p].collided /\ loc[p].exists_ans = "false"
        /\ loc[p].hash \in images

\* C3: an archive of bytes whose fingerprint already has an asset on disk
\* and an image row fails with HashCollision (naming the file that is there)
\* and changes neither the disk nor the catalog, whatever tags and source
\* the command carries.  An I/O failure of the attempt is the only other
\* outcome, and it changes nothing either.
C3_DuplicateArchiveChangesNothing ==
    \A p \in Procs :
        ( /\ op[p].name = "archive"
          /\ Media_new(op[p].bytes).ok
          /\ IsArchived(pre[p], FingerprintOf(op[p].bytes)) )
        => /\ Snapshot = pre[p]
           /\ pc[p] = "done" =>
                 /\ ~ret[p].ok
                 /\ \/ loc[p].faulted
                    \/ /\ ret[p].err.kind = "HashCollision"
                       /\ ret[p].err.hash = FingerprintOf(op[p].bytes)
                       /\ ret[p].err.path \in pre[p].files

\* C3 witness: the archived image is archived again in another encoding,
\* with other tags and a source, and the attempt has ended in HashCollision.
C3_DuplicateRejected ==
    \E p \in Procs :
        /\ Done(p, "archive") /\ ~loc[p].faulted
        /\ Media_new(op[p].bytes).ok
        /\ IsArchived(pre[p], FingerprintOf(op[p].bytes))
        /\ op[p].bytes.ext = EXT_webp
        /\ Elements(op[p].tags) # {} /\ Elements(op[p].tags) # tags_of(loc[p].hash)
        /\ op[p].source # NoValue
        /\ ret[p].err.kind = "HashCollision"

\* The tags of fingerprint h in snapshot s.
tags_in(s, h) == {t \in s.tags : <<h, t>> \in s.image_tags}

\* C6: after attach_tags(fp, T) has returned Ok, the set of tags get_tags(fp)
\* returns is the set of the elements of T, whatever tags fp had before; the
\* same holds for the tags of a successful archive that carries tags.
C6_AttachTagsSetsTagSet ==
    \A p \in Procs :
        /\ (Done(p, "attach_tags") /\ ret[p].ok)
           => tags_of(op[p].hash) = Elements(op[p].tags)
        /\ (Done(p, "archive") /\ ret[p].ok /\ op[p].tags # <<>>)
           => /\ tags_of(loc[p].hash) = Elements(op[p].tags)
              /\ ret[p].val.tags = Elements(op[p].tags)

\* C6 witness: attach_tags has returned Ok after both adding and removing a
\* tag, for a list that names a tag twice.
C6_TagsReplaced ==
    \E p \in Procs :
        /\ Done(p, "attach_tags") /\ ret[p].ok
        /\ loc[p].to_add # {} /\ loc[p].to_remove # {}
        /\ Len(op[p].tags) > Cardinality(Elements(op[p].tags))
        /\ tags_of(op[p].hash) # tags_in(pre[p], op[p].hash)

\* C7 as stated: attach_tags(fp, []) leaves the tag set of fp as it was.
C7_EmptyListKeepsTags ==
    \A p \in Procs :
        (Done(p, "attach_tags") /\ ret[p].ok /\ op[p].tags = <<>>)
        => tags_of(op[p].hash) = tags_in(pre[p], op[p].hash)

\* C7 amended: after attach_tags(fp, []) has returned Ok, fp has no tags:
\* every tag it had is removed.
C7_EmptyListClearsTags ==
    \A p \in Procs :
        (Done(p, "attach_tags") /\ ret[p].ok /\ op[p].tags = <<>>)
        => /\ tags_of(op[p].hash) = {}
           /\ loc[p].to_remove = tags_in(pre[p], op[p].hash)

\* C7 witness: attach_tags(fp, []) has returned Ok on a fingerprint that
\* had a tag.
C7_TagsCleared ==
    \E p \in Procs :
        /\ Done(p, "attach_tags") /\ ret[p].ok /\ op[p].tags = <<>>
        /\ tags_in(pre[p], op[p].hash) # {}
        /\ tags_of(op[p].hash) = {}

\* C8: a remove_image(fp) that meets no I/O failure returns Ok and leaves
\* fp with no entry in the store and no image row, whether fp was archived
\* or not; a remove_image(fp) that follows a successful remove_image(fp)
\* changes nothing.
C8_RemoveTwice ==
    \A p \in Procs :
        (Done(p, "remove_image") /\ ~loc[p].faulted)
        => /\ ret[p].ok
           /\ IsNone(index_file(op[p].hash))
           /\ op[p].hash \notin images
           /\ (op[p].prev.name = "remove_image" /\ op[p].prev.hash = op[p].hash
                 /\ op[p].prev.ok) => Snapshot = pre[p]

\* C8 witness: remove_image of an archived fingerprint returned Ok, and the
\* remove_image of the same fingerprint that followed has returned Ok.
C8_RemovedTwice ==
    \E p \in Procs :
        /\ Done(p, "remove_image") /\ ret[p].ok
        /\ op[p].prev.name = "remove_image" /\ op[p].prev.hash = op[p].hash
        /\ op[p].prev.ok /\ op[p].prev.archived

\* The value of a hexadecimal digit, and of a two-digit lowercase hex text.
IsHexDigit(c) == \E i \in 1..16 : HexDigits[i] = c
HexValue(c) == (CHOOSE i \in 1..16 : HexDigits[i] = c) - 1
IsHexByte(cs, b) ==
    /\ Len(cs) = 2
    /\ IsHexDigit(cs[1]) /\ IsHexDigit(cs[2])
    /\ 16 * HexValue(cs[1]) + HexValue(cs[2]) = b

\* path is HH/HH/<16 hex of h>.<ext>: three components, none of them the
\* store root.
HasShardForm(path, h) ==
    /\ Len(path) = 3
    /\ IsHexByte(path[1], h[1])
    /\ IsHexByte(path[2], h[2])
    /\ LET name == path[3]
       IN  /\ Len(name) > 17
           /\ \A i \in 1..8 : IsHexByte(SubSeq(name, 2 * i - 1, 2 * i), h[i])
           /\ name[17] = "."
           /\ \A i \in 18..Len(name) : name[i] \notin {".", "/"}

\* The paths of a MediaPath.
PathsOf(entry) ==
    IF entry.kind = "Image" THEN {entry.path} ELSE {entry.video, entry.thumb}

\* C9: after a successful archive that yields fingerprint fp, index_file(fp)
\* is present and every path in it is relative to the store root and has
\* the form HH/HH/<16 hex of fp>.<ext>, HH and HH being the first and the
\* second byte of fp in two lowercase hex digits.
C9_IndexedUnderShard ==
    \A p \in Procs :
        (Done(p, "archive") /\ ret[p].ok)
        => LET fp == ret[p].val.hash
           IN  /\ fp = FingerprintOf(op[p].bytes)
               /\ IsSome(index_file(fp))
               /\ \A path \in PathsOf(index_file(fp)) : HasShardForm(path, fp)
               /\ ret[p].val.path = index_file(fp)

\* C9 witness: a video has been archived, so that index_file holds two
\* paths.
C9_VideoIndexed ==
    \E p \in Procs :
        /\ Done(p, "archive") /\ ret[p].ok
        /\ op[p].bytes.sig = "video"
        /\ IsSome(index_file(ret[p].val.hash))
        /\ Cardinality(PathsOf(index_file(ret[p].val.hash))) = 2

\* The transient errors: I/O failure, protocol error, pool timeout.
IsTransient(r) == ~r.ok /\ r.err.source \in {"Io", "Protocol", "PoolTimedOut"}

\* What a call of retry may have done at any moment: it has invoked op() at
\* most three times, it is not at unreachable!(), every result but the last
\* was a transient failure, and what it returned is the last result: the
\* first Ok, the first error that is not transient, or the third error.
RetrySafe ==
    /\ rpc # "unreachable"
    /\ Len(history) <= 3
    /\ attempt < 3
    /\ \A i \in 1..(Len(history) - 1) : IsTransient(history[i])
    /\ (rpc = "returned" /\ history # <<>>) =>
          /\ rret = history[Len(history)]
          /\ rret.ok \/ ~IsTransient(rret) \/ Len(history) = 3
    /\ (rpc \in {"sleep", "for", "op"} /\ history # <<>>) =>
          /\ IsTransient(history[Len(history)])
          /\ Len(history) < 3

\* C10: Database::retry always terminates after at most three invocations
\* of the operation: it returns the first Ok at once, returns the third
\* error when three attempts in a row fail with a transient error, and never
\* reaches the unreachable!() after the loop.
C10_RetryTerminates == []RetrySafe /\ ((rpc = "for") ~> (rpc = "returned"))

\* C10 witness: three attempts failed with three different transient errors
\* and retry has returned the third.
C10_ThirdErrorReturned ==
    /\ rpc = "returned"
    /\ Len(history) = 3
    /\ \A i \in 1..3 : IsTransient(history[i])
    /\ Cardinality({history[i] : i \in 1..3}) = 3
    /\ rret = history[3]

\* The last result op() gave in the current call of retry.
LastResult == history[Len(history)]

\* C11: retry invokes the operation again only after an error whose sqlx
\* kind is Io, Protocol or PoolTimedOut.  After an attempt that failed with
\* any other kind, in a QueryFailed or in a TransactionFailed, the next
\* thing retry does is return that error: the operation is not invoked again.
C11_RetriesOnlyTransient ==
    /\ \A i \in 1..(Len(history) - 1) :
          /\ ~history[i].ok
          /\ history[i].err.variant \in {"QueryFailed", "TransactionFailed"}
          /\ history[i].err.source \in {"Io", "Protocol", "PoolTimedOut"}
    /\ ( /\ history # <<>>
         /\ ~LastResult.ok
         /\ LastResult.err.source \in {"RowNotFound", "Database"}
         /\ rpc # "match" )
       => /\ rpc = "returned"
          /\ rret = LastResult

\* C11 witness: after one transient failure the second attempt failed with
\* a logical error inside a TransactionFailed, and retry has returned it.
C11_LogicalErrorReturned ==
    /\ rpc = "returned"
    /\ Len(history) = 2
    /\ IsTransient(history[1])
    /\ history[2] = Err(TransactionFailed("Database"))
    /\ rret = history[2]

-----------------------------------------------------------------------------
(* The routines that change the catalog, called directly.                  *)

\* The call in progress repeats, with the same arguments, the call the
\* client completed just before, and that call returned Ok.
RepeatsPrevious(p) ==
    /\ op[p].prev.name = op[p].name
    /\ op[p].prev.hash = loc[p].hash
    /\ op[p].prev.args = <<op[p].tags, op[p].source, op[p].meta>>
    /\ op[p].prev.ok

\* C12: each of ensure_image, ensure_tags, ensure_image_has_tags,
\* ensure_image_has_metadata, ensure_image_has_source, ensure_tags_removed and
\* ensure_image_removed is idempotent: whatever the arguments and the
\* catalog, a call that meets no I/O failure returns Ok, and a call that
\* repeats the call before it with the same arguments returns Ok as well and
\* leaves every table as the first call left it.
C12_MutatorsIdempotent ==
    (pc[Writer] = "done" /\ op[Writer].name \in Mutators /\ ~loc[Writer].faulted)
        => /\ ret[Writer].ok
           /\ RepeatsPrevious(Writer) => Snapshot = pre[Writer]

\* ensure_image_has_tags called twice with ["cat", "cute"] on a fingerprint
\* that had neither an image row nor a tag before.
C12_TaggedTwice ==
    /\ Done(Writer, "ensure_image_has_tags") /\ ~loc[Writer].faulted
    /\ RepeatsPrevious(Writer)
    /\ op[Writer].hash = HashB /\ op[Writer].tags = <<"cat", "cute">>
    /\ {<<HashB, "cat">>, <<HashB, "cute">>} \subseteq image_tags
    /\ ret[Writer].ok

-----------------------------------------------------------------------------
(* app::query_image.                                                       *)

\* The fingerprints of a list of views.
hashes_of(views) == [i \in DOMAIN views |-> views[i].hash]

\* The place of fingerprint h in the list hashes.
IndexOf(h) == CHOOSE i \in DOMAIN hashes : hashes[i] = h

\* C13: when query_image returns Ok, its views are in the relative order of
\* the list db.query_image gave, whatever the order in which the tasks of
\* the JoinSet ended: each view is of a fingerprint of the list, and of two
\* views the one returned first is of the fingerprint that comes first in
\* the list.
C13_ViewsInListOrder ==
    (qpc = "returned" /\ qret.ok /\ hashes # <<>>)
        => LET hs == hashes_of(qret.val)
           IN  /\ \A i \in DOMAIN hs : hs[i] \in Elements(hashes)
               /\ \A i, j \in DOMAIN hs : i < j => IndexOf(hs[i]) < IndexOf(hs[j])

\* Two tasks ended in the order opposite to the list, and query_image
\* returned the two views.
C13_JoinedInReverse ==
    /\ qpc = "returned" /\ qret.ok
    /\ Len(hashes) = 2 /\ Len(qret.val) = 2
    /\ joined = <<hashes[2], hashes[1]>>

\* The fingerprint has an asset in the store.
HasAsset(h) == IsSome(index_file(h))

\* C14: when the list of the catalog holds a fingerprint without an asset on
\* disk and no I/O failure occurs, query_image returns Ok with the views of
\* the fingerprints that have an asset, in the order of the list, and leaves
\* out only the one without.
C14_AbsentAssetOmitted ==
    (qpc = "returned" /\ faults = 0 /\ \E i \in DOMAIN hashes : ~HasAsset(hashes[i]))
        => /\ qret.ok
           /\ hashes_of(qret.val) = SelectSeq(hashes, HasAsset)

-----------------------------------------------------------------------------
(* The counts of table tag_counts.                                         *)

\* The number of images that carry tag t in image_tags.
images_with(t) == Cardinality({h \in PixelHashes : <<h, t>> \in image_tags})

\* What count_image_by_tag(t) gave on the tables of snapshot s.
count_before(s, t) ==
    IF \E r \in s.tag_counts : r[1] = t
    THEN (CHOOSE r \in s.tag_counts : r[1] = t)[2]
    ELSE 0

\* C15: ensure_image_has_tags, ensure_tags_removed and ensure_image_removed
\* leave tag_counts alone: at every step of such a call and after it, the
\* table is the one the call found, and count_image_by_tag(t) is for every
\* tag what it was before the call, 0 for a tag without a row.
C15_CountsNotMaintained ==
    op[Writer].name \in {"ensure_image_has_tags", "ensure_tags_removed", "ensure_image_removed"}
        => /\ tag_counts = pre[Writer].tag_counts
           /\ \A t \in QueriedTags : count_image_by_tag(t) = count_before(pre[Writer], t)

\* A call has changed the images of a tag, and count_image_by_tag still
\* gives the count of before, which is no longer the number of its images.
C15_StaleCount ==
    /\ pc[Writer] = "done" /\ ret[Writer].ok
    /\ op[Writer].name \in {"ensure_image_has_tags", "ensure_tags_removed",
                             "ensure_image_removed"}
    /\ image_tags # pre[Writer].image_tags
    /\ \E t \in QueriedTags : count_image_by_tag(t) # images_with(t)

\* C16: once refresh_image_count has returned Ok, count_image_by_tag(t) is
\* for every tag the number of images that carry it in image_tags, 0 for a
\* tag no image carries; and the delete and the insert take effect as one:
\* until the call has committed, and when it fails, the table every reader
\* sees is the one the call found.
C16_RefreshIsExactAndAtomic ==
    /\ (Done(Writer, "refresh_image_count") /\ ret[Writer].ok)
          => \A t \in QueriedTags : count_image_by_tag(t) = images_with(t)
    /\ (op[Writer].name = "refresh_image_count"
          /\ (pc[Writer] \in {"rc_delete", "rc_insert", "rc_commit"} \/ ~ret[Writer].ok))
          => tag_counts = pre[Writer].tag_counts

\* A refresh replaced the row of "cat" by the rows of two tags, one of them
\* carried by two images.
C16_Refreshed ==
    /\ Done(Writer, "refresh_image_count") /\ ret[Writer].ok
    /\ pre[Writer].tag_counts = {<<"cat", 1>>}
    /\ count_image_by_tag("cute") = 2
    /\ count_image_by_tag("dog") = 0

-----------------------------------------------------------------------------
(* The rows of table tags.                                                 *)

\* C17: no step of archive, attach_tags, attach_source or remove_image, and
\* so no step of the catalog routines they call, removes a row of tags:
\* every tag query_tags(All) returns before a step it returns after it.
C17_TagsNeverRemoved == [][query_tags_all \subseteq query_tags_all']_vars

\* remove_image has deleted the one image that carried "cat", and
\* query_tags(All) still returns "cat".
C17_OrphanTagKept ==
    /\ Done(1, "remove_image") /\ ret[1].ok
    /\ <<HashA, "cat">> \in pre[1].image_tags
    /\ \A r \in image_tags : r[2] # "cat"
    /\ "cat" \in query_tags_all

-----------------------------------------------------------------------------
(* Concurrent archives of one fingerprint.                                 *)

\* C18: when two clients archive uploads of the same fingerprint at the same
\* time, then once both calls have returned, each that returned Ok returned
\* the view of a fingerprint that has its asset on disk and its row in
\* images: the failure of one and its compensation have not removed what the
\* other reported archived.
C18_ReportedArchiveHolds ==
    (\A p \in Procs : Done(p, "archive"))
        => \A p \in Procs :
              ret[p].ok => /\ HasAsset(ret[p].val.hash)
                           /\ ret[p].val.hash \in images

-----------------------------------------------------------------------------
(* A video whose storing fails part-way.                                   *)

\* C19: when create_file has written the thumbnail of a video and the write
\* of the video itself fails, then by the time archive has returned its
\* error no file named after the fingerprint is left in the store.
C19_FailedVideoLeavesNoFile ==
    \A p \in Clients :
        ( /\ Done(p, "archive") /\ ~ret[p].ok
          /\ IsSome(loc[p].create_err)
          /\ loc[p].create_err.at = "cf_write_video"
          /\ glob(pre[p].files, loc[p].pixel_hash) = {} )
        => glob(files, loc[p].pixel_hash) = {}

-----------------------------------------------------------------------------
(* remove_image, failed and called again.                                  *)

\* The call in progress is a remove_image of the fingerprint of the
\* remove_image the client completed just before, which returned an error.
RetriesFailedRemove(p) ==
    /\ op[p].name = "remove_image"
    /\ op[p].prev.name = "remove_image"
    /\ op[p].prev.hash = op[p].hash
    /\ ~op[p].prev.ok

\* C20: remove_image deletes the asset on disk before the rows of the
\* catalog: while it is at the files, the tables are as the call found
\* them.  And it can be called again after a failure at either step: the
\* call that follows a failed remove_image of the same fingerprint returns Ok
\* unless an I/O failure meets it too, and when it returns Ok the
\* fingerprint has no entry in the store and no row in images.
C20_RemoveFilesFirstAndRetry ==
    \A p \in Clients :
        /\ (op[p].name = "remove_image"
               /\ pc[p] \in {"ed_find", "ed_rm_image", "ed_rm_video", "ed_rm_thumb"})
              => /\ images = pre[p].images
                 /\ image_tags = pre[p].image_tags
                 /\ metadatas = pre[p].metadatas
        /\ (RetriesFailedRemove(p) /\ pc[p] = "done")
              => /\ ~loc[p].faulted => ret[p].ok
                 /\ ret[p].ok => /\ IsNone(index_file(op[p].hash))
                                  /\ op[p].hash \notin images

\* A remove_image of an archived fingerprint deleted the file and failed at
\* the catalog; the remove_image that followed found the row without the
\* asset and returned Ok.
C20_RetriedAfterCatalogFailure ==
    /\ RetriesFailedRemove(1) /\ pc[1] = "done" /\ ret[1].ok
    /\ op[1].prev.archived
    /\ op[1].hash \in pre[1].images
    /\ glob(pre[1].files, op[1].hash) = {}

-----------------------------------------------------------------------------
(* Database::ensure_image_removed as a transaction.                        *)

\* The rows of fingerprint h in the catalog of snapshot s.
rows_of(s, h) ==
    [image |-> h \in s.images, metadata |-> s.metadatas[h], source |-> s.source[h],
     image_tags |-> {r \in s.image_tags : r[1] = h}]

\* C21: ensure_image_removed(fp) is all or nothing.  While the call runs, and
\* when it has returned an error, at once or after its retries, every table
\* is as the call found it; when it has returned Ok, fp has no row in
\* images, in image_metadatas or in image_tags.
C21_RemovedAllOrNothing ==
    op[Writer].name = "ensure_image_removed"
        => IF pc[Writer] = "done" /\ ret[Writer].ok
           THEN rows_of(Snapshot, op[Writer].hash)
                  = [image |-> FALSE, metadata |-> None, source |-> NoValue,
                     image_tags |-> {}]
           ELSE Snapshot = pre[Writer]

\* The call found an image with tags, failed three times with a transient
\* error, the last time at the DELETE of the image row after the DELETE of
\* its tags, and returned the error.
C21_FailedAfterRetries ==
    /\ Done(Writer, "ensure_image_removed") /\ ~ret[Writer].ok
    /\ loc[Writer].attempt = max_retries - 1
    /\ ret[Writer].err.at = "irt_image"
    /\ rows_of(pre[Writer], op[Writer].hash).image_tags # {}

-----------------------------------------------------------------------------
(* attach_tags and attach_source without an asset.                         *)

\* The fingerprint had no entry in the store when the operation began.
NoAssetBefore(p) == IsNone(classify(glob(pre[p].files, op[p].hash)))

\* C22: attach_tags(fp, T) and attach_source(fp, s) for a fingerprint that
\* has no asset in the store change no table at any step, and return
\* Err(StorageNotFound).
C22_NoAssetNoChange ==
    \A p \in Clients :
        (op[p].name \in {"attach_tags", "attach_source"} /\ NoAssetBefore(p))
        => /\ <<images, source, metadatas, tags, image_tags, tag_counts>>
                = <<pre[p].images, pre[p].source, pre[p].metadatas, pre[p].tags,
                    pre[p].image_tags, pre[p].tag_counts>>
           /\ pc[p] = "done" => (~ret[p].ok /\ ret[p].err.kind = "StorageNotFound"
                                   /\ ret[p].err.hash = op[p].hash)

\* attach_tags with a new tag for a fingerprint whose image row is still in
\* the catalog and whose file is gone has returned StorageNotFound.
C22_RowWithoutAsset ==
    /\ Done(1, "attach_tags") /\ NoAssetBefore(1)
    /\ op[1].hash \in images
    /\ op[1].tags = <<"cat", "cute">>
    /\ ~ret[1].ok /\ ret[1].err.kind = "StorageNotFound"

-----------------------------------------------------------------------------
(* PixelHash::to_signed and PixelHash::from_signed.                        *)

\* x is an i64: eight digits, the highest signed.
IsI64(x) ==
    /\ DOMAIN x = 1..8
    /\ x[8] \in -128..127
    /\ \A i \in 1..7 : x[i] \in 0..255

\* C23: to_signed and from_signed are inverse to each other, and to_signed
\* keeps the order of the unsigned big-endian values: from_signed(to_signed(h))
\* = h; to_signed(from_signed(v)) = v; u64(a) < u64(b) implies to_signed(a) <
\* to_signed(b); the fingerprint of zeros gives i64::MIN and that of 0xff
\* bytes gives i64::MAX.
C23_SignedBijection ==
    /\ fn = "to_signed"
          => /\ IsI64(out[1]) /\ IsI64(out[2])
             /\ Less(u64_from(arg.a), u64_from(arg.b)) => Less(out[1], out[2])
             /\ arg.a = <<0, 0, 0, 0, 0, 0, 0, 0>> => out[1] = i64_MIN
             /\ arg.a = <<255, 255, 255, 255, 255, 255, 255, 255>> => out[1] = i64_MAX
    /\ fn = "to_signed, from_signed" => out = <<arg.a, arg.b>>
    /\ fn = "from_signed" => out \in Seq(0..255) /\ Len(out) = 8
    /\ fn = "from_signed, to_signed" => out = arg.v

\* Two fingerprints on the two sides of the change of sign, in the order of
\* their unsigned values, have been converted.
C23_AcrossSignChange ==
    /\ fn = "to_signed"
    /\ arg.a[1] = 127 /\ arg.b[1] = 128
    /\ Less(out[1], out[2])
    /\ out[1][8] = -1 /\ out[2][8] = 0

-----------------------------------------------------------------------------
(* PixelHash::try_from and the text of a fingerprint.                      *)

\* C24: try_from(s) returns InvalidLength for every string whose length is
\* not 16, returns InvalidHex for every string of length 16 with a character
\* that is not a hexadecimal digit, and never panics.
C24_RejectsBadStrings ==
    fn = "try_from"
        => /\ out # Panic
           /\ str_len(arg.s) # 16 => out = Err(InvalidLength)
           /\ (str_len(arg.s) = 16 /\ \E i \in DOMAIN arg.s : ~is_digit(arg.s[i]))
                 => out = Err(InvalidHex)

\* C25: the text of a fingerprint and the fingerprint stand in a bijection:
\* try_from(h.to_string()) is h for every fingerprint h, and h.to_string() is
\* s for every string s that try_from accepts as h.
C25_CanonicalText ==
    /\ fn = "to_string, try_from" => out = Ok(arg.h)
    /\ fn = "try_from, to_string" => out = arg.s

-----------------------------------------------------------------------------
(* parse_query.                                                            *)

IsPanic(r) == ~r.ok /\ r.err.kind = "panic"

Operators == {kw_OR, kw_AND}
Node(o, lhs, rhs) == IF o = kw_OR THEN Or(lhs, rhs) ELSE And(lhs, rhs)
Leaf(negated, name) == IF negated THEN Not(Tag(name)) ELSE Tag(name)
Spaced(pieces) == concat(pieces, <<" ">>)

\* x o1 y o2 z read with AND above OR and operators of one kind from the left.
Precedence(o1, x, o2, y, z) ==
    IF o1 = kw_OR /\ o2 = kw_AND THEN Or(x, And(y, z)) ELSE Node(o2, Node(o1, x, y), z)

\* C26: parse_query gives NOT precedence over AND and AND over OR, and groups
\* operators of one kind from the left: a OR b AND c is Or(a, And(b, c)),
\* a AND b AND c is And(And(a, b), c), a OR b OR c is Or(Or(a, b), c),
\* NOT a AND b is And(Not(a), b), and a query in parentheses is one primary.
C26_Precedence ==
    fn = "parse_query" =>
      /\ \A n1 \in BOOLEAN, n2 \in BOOLEAN, n3 \in BOOLEAN, o1 \in Operators, o2 \in Operators :
           arg = Spaced(Operand(n1, cat) \o <<o1>> \o Operand(n2, dog) \o <<o2>> \o Operand(n3, emu))
             => out = Ok(Precedence(o1, Leaf(n1, cat), o2, Leaf(n2, dog), Leaf(n3, emu)))
      /\ \A n1 \in BOOLEAN, o1 \in Operators :
           arg = Spaced(Operand(n1, cat) \o <<o1, dog>>)
             => out = Ok(Node(o1, Leaf(n1, cat), Tag(dog)))
      /\ \A o1 \in Operators, o2 \in Operators :
           /\ arg = Spaced(<<<<"(">>, cat, o1, dog, <<")">>, o2, emu>>)
                => out = Ok(Node(o2, Node(o1, Tag(cat), Tag(dog)), Tag(emu)))
           /\ arg = Spaced(<<cat, o1, <<"(">>, dog, o2, emu, <<")">>>>)
                => out = Ok(Node(o1, Tag(cat), Node(o2, Tag(dog), Tag(emu))))
           /\ arg = Spaced(<<kw_NOT, <<"(">>, cat, o1, dog, <<")">>>>)
                => out = Ok(Not(Node(o1, Tag(cat), Tag(dog))))

\* NOT cat AND dog OR emu has been parsed.
C26_NotAndOr ==
    /\ fn = "parse_query"
    /\ arg = Spaced(<<kw_NOT, cat, kw_AND, dog, kw_OR, emu>>)
    /\ out = Ok(Or(And(Not(Tag(cat)), Tag(dog)), Tag(emu)))

RECURSIVE tags_in_expr(_)
tags_in_expr(expr) ==
    IF expr.node = "Tag" THEN {expr.tag}
    ELSE IF expr.node = "Not" THEN tags_in_expr(expr.expr)
    ELSE IF expr.node \in {"And", "Or"} THEN tags_in_expr(expr.lhs) \cup tags_in_expr(expr.rhs)
    ELSE {}

Reserved == {kw_OR, kw_AND, kw_NOT, kw_date}

\* str is one word of letters, digits and underscores.
IsWord(str) == str # <<>> /\ \A i \in DOMAIN str : str[i] \in is_tag_char

\* C27: OR, AND, NOT and date are reserved: parse_query returns no tree with
\* one of them as a tag, and takes a keyword for an operator only where it is
\* a whole word, so that a longer word that begins with one is a tag.
C27_KeywordsReserved ==
    fn = "parse_query" =>
      /\ out.ok => tags_in_expr(out.val) \cap Reserved = {}
      /\ IsWord(arg) /\ arg \notin Reserved => out = Ok(Tag(arg))

\* C28: date >= X and date <= X, X a string of date-time characters that is
\* no date of RFC 3339, are answered with the error InvalidDateFormat, with
\* no panic and no tree.
C28_InvalidDateIsError ==
    fn = "parse_query" =>
      \A cmp \in {op_ge, op_le}, sep \in {<<>>, <<" ">>}, x \in Dates :
        ~is_rfc3339(x) /\ arg = concat(<<kw_date, cmp, x>>, sep)
          => ~IsPanic(out) /\ ~out.ok /\ out.err.kind = "InvalidDateFormat"

-----------------------------------------------------------------------------
(* ImageQuery::to_sql.                                                     *)

\* C29: a query whose order is None is lowered with ORDER BY created_at
\* DESC in its SQL.
C29_DefaultOrder ==
    fn = "to_sql" /\ IsNone(arg.query.order)
        => \E i \in DOMAIN out.sql : out.sql[i] = " ORDER BY created_at DESC"

\* The values of the leaves of an expression, from left to right.
RECURSIVE leaves(_)
leaves(expr) ==
    IF expr.node = "Tag" THEN <<[of |-> "tag", value |-> expr.tag]>>
    ELSE IF expr.node = "DateUntil" THEN <<[of |-> "until", value |-> to_rfc3339(expr.dt)]>>
    ELSE IF expr.node = "DateSince" THEN <<[of |-> "since", value |-> to_rfc3339(expr.dt)]>>
    ELSE IF expr.node = "Not" THEN leaves(expr.expr)
    ELSE leaves(expr.lhs) \o leaves(expr.rhs)

\* The values a query binds: its leaves, then its limit, then its offset.
bound_values(query) ==
    (IF query.expr.kind = "Where" THEN leaves(query.expr.expr) ELSE <<>>)
    \o (IF IsSome(query.limit)
        THEN <<[of |-> "limit", value |-> to_string_u32(query.limit.val)]>> ELSE <<>>)
    \o (IF IsSome(query.offset)
        THEN <<[of |-> "offset", value |-> to_string_u32(query.offset.val)]>> ELSE <<>>)

IsPlaceholder(piece) == piece = "?" \/ \E k \in 1..8 : piece = "$" \o ToString(k)

\* The places of the placeholders in a text, from left to right.
placeholders(sql) ==
    LET at == {i \in DOMAIN sql : IsPlaceholder(sql[i])}
    IN  [k \in 1..Cardinality(at) |->
            CHOOSE i \in at : Cardinality({j \in at : j < i}) = k - 1]

\* What the placeholder at place i of a text stands for, by the piece before it.
stands_for(sql, i) ==
    CASE sql[i - 1] = exists_tag_query(1, "sqlite")[1] -> "tag"
      [] sql[i - 1] = exists_date_until_query(1, "sqlite")[1] -> "until"
      [] sql[i - 1] = exists_date_since_query(1, "sqlite")[1] -> "since"
      [] sql[i - 1] = " LIMIT CAST(" -> "limit"
      [] sql[i - 1] = " OFFSET CAST(" -> "offset"
      [] OTHER -> "none"

\* C30: to_sql emits as many placeholders as it returns parameters, and the
\* k-th parameter is the value of the k-th placeholder of the text from left
\* to right: the leaves of the filter in order, then the limit, then the
\* offset, the k-th placeholder carrying the index k.
C30_PlaceholdersMatchParams ==
    fn = "to_sql" =>
      LET values == bound_values(arg.query)
          at == placeholders(out.sql)
      IN  /\ Len(at) = Len(out.params)
          /\ Len(values) = Len(out.params)
          /\ \A k \in DOMAIN at :
               /\ out.params[k] = values[k].value
               /\ stands_for(out.sql, at[k]) = values[k].of
               /\ out.sql[at[k]] = placeholder(k, arg.dialect)

\* test_build_query has been lowered for PostgreSQL: six parameters, the
\* date fourth, the limit and the offset last.
C30_TestBuildQuery ==
    /\ fn = "to_sql"
    /\ arg.dialect = "postgres"
    /\ arg.query.expr = Where(And(Or(And(Tag(cat), Tag(cute)), Not(Tag(dog))),
                                  DateUntil(date_fields(date_2025))))
    /\ out.params = <<cat, cute, dog,
                      SubSeq(date_2025, 1, 19) \o <<"+", "0", "0", ":", "0", "0">>,
                      <<"1", "0">>, <<"2", "0">>>>
    /\ Len(placeholders(out.sql)) = 6

-----------------------------------------------------------------------------
(* The migration.                                                          *)

\* C31: the migration is idempotent: run any number of times on one database
\* it succeeds each time, and the tables, the view and every row are as the
\* first run left them; the rows are those the database had.
C31_MigrationIdempotent ==
    /\ fn # "failed"
    /\ fn = "migrated" =>
         /\ out.res = Ok(Unit)
         /\ out.db = out.first.val
         /\ out.db.rows = arg.db.rows
         /\ out.db.objects = {migration(arg.config)[i].name : i \in DOMAIN migration(arg.config)}
    /\ (fn = "migrate" /\ out.runs >= 1) => out.db = out.first.val

\* The migration has run three times on a database that held rows.
C31_MigratedThrice ==
    /\ fn = "migrated"
    /\ out.runs = 3
    /\ arg.db.rows # {}

\* C32: when ensure_deleted(fp) has returned Ok(()), no file with stem fp
\* remains: the glob <shard>/<fp>.* matches nothing, whatever files were on
\* disk before (one file, a video pair, two non-png files, three files).
C32_DeletedLeavesNothing ==
    \A p \in Clients :
        Done(p, "ensure_deleted") /\ ret[p].ok => glob(files, op[p].hash) = {}

\* The file names of a set of paths.
FileNames(paths) == {file_name(f) : f \in paths}

\* C33: index_file classifies by the number of paths the glob matches: one
\* match is an image; two matches of which one ends in .png are a video
\* with the .png as thumbnail and the other as original; no match, two
\* matches without a .png and three or more matches are None.
C33_ClassifiedByCount ==
    \A p \in Clients :
        Done(p, "index_file") =>
            LET m == glob(files, op[p].hash)
                r == ret[p].val
            IN  /\ ret[p].ok
                /\ IF Cardinality(m) = 1
                   THEN r.kind = "Image" /\ FileNames({r.path}) = FileNames(m)
                   ELSE IF Cardinality(m) = 2 /\ \E f \in m : extension(f) = EXT_png
                   THEN /\ r.kind = "Video"
                        /\ extension(r.thumb) = EXT_png
                        /\ r.video # r.thumb
                        /\ FileNames({r.video, r.thumb}) = FileNames(m)
                   ELSE IsNone(r)

\* index_file has answered with a video whose original is the .webp file
\* beside the .png thumbnail.
C33_Classified ==
    \E p \in Clients :
        /\ Done(p, "index_file")
        /\ ret[p].val.kind = "Video"
        /\ extension(ret[p].val.video) = EXT_webp

\* s occurs in n.
IsSubstring(s, n) == \E i \in 0..(Len(n) - Len(s)) : SubSeq(n, i + 1, i + Len(s)) = s

\* C34: for every string s over letters, digits and _, and every stored tag
\* n, Prefix(s) selects n iff n starts with s, and Contains(s) selects n iff
\* s occurs in n: the characters of s are matched literally.
C34_MatchedLiterally ==
    fn = "query_tags" /\ arg.query.kind = "Where" =>
        /\ arg.query.expr.node = "Prefix" =>
              (out.rows = {arg.name} <=> IsPrefix(arg.query.expr.name, arg.name))
        /\ arg.query.expr.node = "Contains" =>
              (out.rows = {arg.name} <=> IsSubstring(arg.query.expr.name, arg.name))

\* Whether a row satisfies a filter of tags, by the expression itself.
RECURSIVE carries(_, _)
carries(row, expr) ==
    CASE expr.node = "Tag" -> expr.tag \in row.tags
      [] expr.node = "And" -> carries(row, expr.lhs) /\ carries(row, expr.rhs)
      [] expr.node = "Or" -> carries(row, expr.lhs) \/ carries(row, expr.rhs)
      [] expr.node = "Not" -> ~carries(row, expr.expr)

\* The rows a query's filter selects, whatever its limit, offset and order.
filtered(query, view) ==
    IF query.expr.kind = "All" THEN view
    ELSE {row \in view : carries(row, query.expr.expr)}

\* C35: count_image(q) returns Ok with the number of images that match q's
\* filter, for every ImageQuery q, those with a limit, an offset or an order
\* included: the number query_image gives for the filter alone.
C35_CountsTheFilter ==
    fn = "count_image" =>
        out.ok /\ out.val = Cardinality(filtered(arg.query, arg.view))

\* C36: attach_tags is linearizable per fingerprint: when two concurrent
\* calls attach_tags(fp, T1) and attach_tags(fp, T2) have both returned Ok,
\* the tags of fp are T1 or T2, in every interleaving.
C36_AttachLinearizable ==
    (/\ \A p \in Procs : Done(p, "attach_tags") /\ ret[p].ok
     /\ op[1].hash = op[2].hash) =>
        tags_of(op[1].hash) \in {Elements(op[1].tags), Elements(op[2].tags)}

\* C37: with no I/O failure, whenever no operation is in flight, every
\* fingerprint the catalog holds a row for (image_exists) has its asset in
\* the store (index_file is present).
C37_RowsHaveAssets ==
    (faults = 0 /\ \A p \in Procs : pc[p] \in {"idle", "done"}) =>
        \A h \in images : IsSome(index_file(h))

-----------------------------------------------------------------------------
(* The grouping of the emitted SQL.                                        *)

\* The truth value of an expression whose leaves, numbered from left to
\* right starting after number before, have the values truth gives them.
RECURSIVE holds(_, _, _)
holds(expr, truth, before) ==
    IF expr.node = "Not"
    THEN Let(holds(expr.expr, truth, before), LAMBDA inner :
             [val |-> ~inner.val, last |-> inner.last])
    ELSE IF expr.node \in {"And", "Or"}
    THEN Let(holds(expr.lhs, truth, before), LAMBDA lhs :
         Let(holds(expr.rhs, truth, lhs.last), LAMBDA rhs :
             [val |-> IF expr.node = "And" THEN lhs.val /\ rhs.val ELSE lhs.val \/ rhs.val,
              last |-> rhs.last]))
    ELSE [val |-> truth[before + 1], last |-> before + 1]

\* The pieces to_sql appends after the condition of a query.
trailing(query) ==
    (IF IsSome(query.order) THEN 1 ELSE 0) + (IF IsSome(query.limit) THEN 3 ELSE 0)
    + (IF IsSome(query.offset) THEN 3 ELSE 0)

\* C38: the SQL emitted for a filter, read with the precedence of SQL (NOT
\* over AND over OR), groups exactly like the expression: for every
\* assignment of truth values to the leaves the condition and the expression
\* have the same truth value, although Not is emitted without parentheses.
C38_GroupsLikeTheTree ==
    fn = "to_sql" /\ arg.query.expr.kind = "Where" =>
        LET expr == arg.query.expr.expr
        IN  \A truth \in [1..Len(leaves(expr)) -> BOOLEAN] :
                LET read == sql_or(out.sql, 2, truth)
                IN  /\ read.val = holds(expr, truth, 0).val
                    /\ read.next = Len(out.sql) - trailing(arg.query) + 1

\* A negated conjunction has been lowered.
C38_NegatedLowered ==
    /\ fn = "to_sql"
    /\ arg.query.expr = Where(Not(And(Tag(cat), Tag(dog))))
    /\ SubSeq(out.sql, 2, 3) = <<"NOT ", "(">>

-----------------------------------------------------------------------------
(* Pages of the listings.                                                  *)

\* C39: for every page and every limit, each any u32 or absent, the limit
\* of the query is the one given or 20 and its offset is (page - 1) * limit
\* with page 1 when absent, computed without underflow for page 0 and
\* without overflow of the product, in the listings of images, posts and
\* tags alike: no panic, and the offset is the product in full.
C39_OffsetIsTheProduct ==
    fn \in {"images", "posts", "tags"} =>
        /\ out.ok
        /\ out.val.limit = Some(unwrap_or(arg.limit, u32(20)))
        /\ out.val.offset.val \o u32(0) =
               widening_mul(saturating_sub_one(unwrap_or(arg.page, u32(1))),
                            unwrap_or(arg.limit, u32(20)))

=============================================================================
